---- MODULE Spec2Model ----
(***************************************************************************)
(* Model of the session-scoped execution and error-recovery core of the   *)
(* Amazon Q CLI MCP server (src/src/server.ts): the error classifier, the *)
(* retry coordinator, the session directory resolution, the command       *)
(* executor and the tool call handler that ties them together; and of the *)
(* session registry with its stale-session cleanup                        *)
(* (src/src/session-logger.ts).                                           *)
(***************************************************************************)
EXTENDS Integers, Sequences, FiniteSets, TLC

VARIABLES
    cerr,       \* SpecClassify: the raw error handed to classifyError
    cres,       \* SpecClassify: the MCPError it returned (NoValue before a call)
    retry,      \* per request: the locals of its executeWithRetry activation
    req,        \* per request: the tool call being handled and its response
    dirs,       \* the directories that exist on the filesystem
    bindings,   \* SpecSession: the (sessionId, sessionDir) pairs returned so far
    lastCall,   \* SpecSession: the last getSessionDirectory call and its effect
    registryFile, \* the content of active-sessions.json
    clock,      \* Date.now()
    logger,     \* per server process: its AmazonQSessionLogger and startup state
    lastCleanup, \* the last cleanupStaleSessionsFromRegistry call and its effect
    logFiles,   \* the session log files that exist, by the sessionId in their name
    child,      \* SpecExec: the child process of one execute call and its promise
    env,        \* process.env: the Q_MCP_* variables that are set
    cycle,      \* SpecRace: per writer, its registry read-modify-write cycle in progress
    log,        \* SpecLog: the session log file of one logger and its write counter
    preview,    \* SpecPreview: the arguments of the last TOOL_CALL entry and their preview
    active      \* the last getActiveSessions call and what it returned

coreVars == <<cerr, cres, retry, req, dirs, bindings, lastCall>>
loggerVars == <<registryFile, clock, logger, lastCleanup, logFiles>>
execVars == <<child>>
configVars == <<env>>
raceVars == <<cycle>>
logVars == <<log>>
previewVars == <<preview>>
statusVars == <<active>>
restVars == <<configVars, raceVars, logVars, previewVars, statusVars>>

vars ==
    <<cerr, cres, retry, req, dirs, bindings, lastCall,
      registryFile, clock, logger, lastCleanup, logFiles, child, env, cycle, log, preview, active>>

\* absence of a value; every value of the model is a record with a kind
NoValue == [ kind |-> "none" ]

(***************************************************************************)
(* Texts.  classifyError only asks whether a text includes given          *)
(* substrings, so a text is modelled by the set of phrases that occur in  *)
(* it.  A phrase of the text includes every pattern that is a substring   *)
(* of the phrase.                                                         *)
(***************************************************************************)
Phrases ==
    { "AccessDeniedException", "UnauthorizedOperation", "authentication",
      "login required",
      "trouble responding right now", "capacity", "rate limit", "throttle",
      "ECONNREFUSED", "ETIMEDOUT", "ENOTFOUND", "SSL", "certificate",
      "Failed to execute Q CLI", "ENOENT", "command not found",
      "configuration", "config", "doctor",
      "EACCES", "undefined", "other" }

\* pattern is a substring of phrase ("config" occurs inside "configuration")
SubstringOf(pattern, phrase) ==
    \/ pattern = phrase
    \/ pattern = "config" /\ phrase = "configuration"

\* String.prototype.includes
includes(text, pattern) == \E phrase \in text : SubstringOf(pattern, phrase)

(***************************************************************************)
(* Error classification system                                            *)
(***************************************************************************)
NETWORK_ERROR == "NETWORK_ERROR"
AUTHENTICATION_ERROR == "AUTHENTICATION_ERROR"
SERVICE_CAPACITY_ERROR == "SERVICE_CAPACITY_ERROR"
CONFIGURATION_ERROR == "CONFIGURATION_ERROR"
VALIDATION_ERROR == "VALIDATION_ERROR"
Q_CLI_NOT_FOUND == "Q_CLI_NOT_FOUND"
UNKNOWN_ERROR == "UNKNOWN_ERROR"

ErrorType ==
    { NETWORK_ERROR, AUTHENTICATION_ERROR, SERVICE_CAPACITY_ERROR,
      CONFIGURATION_ERROR, VALIDATION_ERROR, Q_CLI_NOT_FOUND, UNKNOWN_ERROR }

\* new MCPError(type, code, message, retryable, guidance)
MCPError(type, code, message, retryable, guidance) ==
    [ kind |-> "MCPError", type |-> type, code |-> code, message |-> message,
      retryable |-> retryable, guidance |-> guidance ]

\* this.errorGuidanceMap, as initializeErrorGuidance fills it
errorGuidanceMap ==
    [ t \in ErrorType \ {UNKNOWN_ERROR} |->
        CASE t = AUTHENTICATION_ERROR ->
               [ message |-> "Authentication failed with Amazon Q CLI",
                 actions |-> << "Run 'q status' to check authentication status",
                                "Try 'q login' to re-authenticate",
                                "Verify AWS credentials are properly configured",
                                "Check if you have the necessary Amazon Q permissions" >>,
                 retryable |-> FALSE ]
          [] t = SERVICE_CAPACITY_ERROR ->
               [ message |-> "Amazon Q service is experiencing high demand",
                 actions |-> << "Wait a few moments and try again",
                                "The service will automatically retry with exponential backoff",
                                "Consider trying during off-peak hours" >>,
                 retryable |-> TRUE ]
          [] t = NETWORK_ERROR ->
               [ message |-> "Network connection issue",
                 actions |-> << "Check your internet connection",
                                "Verify proxy settings if applicable",
                                "Check SSL certificate configuration",
                                "Try connecting from a different network" >>,
                 retryable |-> TRUE ]
          [] t = Q_CLI_NOT_FOUND ->
               [ message |-> "Amazon Q CLI not found or not accessible",
                 actions |-> << "Install Amazon Q CLI from AWS documentation",
                                "Ensure 'q' command is in your PATH",
                                "Run 'which q' to verify installation",
                                "Check file permissions on Q CLI executable" >>,
                 retryable |-> FALSE ]
          [] t = CONFIGURATION_ERROR ->
               [ message |-> "Configuration issue detected",
                 actions |-> << "Run 'q doctor' to diagnose configuration issues",
                                "Check ~/.aws/config and ~/.aws/credentials files",
                                "Verify AWS region is properly set",
                                "Validate JSON syntax in configuration files" >>,
                 retryable |-> FALSE ]
          [] t = VALIDATION_ERROR ->
               [ message |-> "Invalid parameters provided",
                 actions |-> << "Check the parameters passed to the tool",
                                "Refer to tool documentation for valid parameter formats",
                                "Ensure required parameters are provided" >>,
                 retryable |-> FALSE ] ]

\* the guidance literal classifyError builds for an unknown error
unknownGuidance ==
    [ message |-> "An unexpected error occurred",
      actions |-> << "Check the error details for more information",
                     "Try running the command again",
                     "Contact support if the issue persists" >>,
      retryable |-> FALSE ]

(***************************************************************************)
(* Raw errors.  A thrown value is an Error with a message and, possibly,  *)
(* a stderr property, or the value undefined.                             *)
(***************************************************************************)
Undefined == [ kind |-> "undefined" ]

RawError(message, stderr) ==
    [ kind |-> "Error", message |-> message, stderr |-> stderr ]

\* error?.message || String(error)
errorMessageOf(error) ==
    IF error.kind = "Error" /\ error.message # {} THEN error.message
    ELSE IF error.kind = "Error" THEN {"other"}
    ELSE {"undefined"}

\* error?.stderr || ''
stderrOf(error) == IF error.kind = "Error" THEN error.stderr ELSE {}

\* the tests of classifyError's five if-statements, in source order
matchesAuthentication(errorMessage, stderr) ==
    \/ includes(errorMessage, "AccessDeniedException")
    \/ includes(errorMessage, "UnauthorizedOperation")
    \/ includes(errorMessage, "authentication")
    \/ includes(stderr, "login required")

matchesServiceCapacity(errorMessage, stderr) ==
    \/ includes(errorMessage, "trouble responding right now")
    \/ includes(errorMessage, "capacity")
    \/ includes(errorMessage, "rate limit")
    \/ includes(errorMessage, "throttle")

matchesNetwork(errorMessage, stderr) ==
    \/ includes(errorMessage, "ECONNREFUSED")
    \/ includes(errorMessage, "ETIMEDOUT")
    \/ includes(errorMessage, "ENOTFOUND")
    \/ includes(errorMessage, "SSL")
    \/ includes(errorMessage, "certificate")

matchesQCliNotFound(errorMessage, stderr) ==
    \/ includes(errorMessage, "Failed to execute Q CLI")
    \/ includes(errorMessage, "ENOENT")
    \/ includes(errorMessage, "command not found")

matchesConfiguration(errorMessage, stderr) ==
    \/ includes(errorMessage, "configuration")
    \/ includes(errorMessage, "config")
    \/ includes(stderr, "doctor")

\* classifyError with the Network and Q CLI checks in the other order
classifyErrorToolFirst(error, context) ==
    LET errorMessage == errorMessageOf(error)
        stderr == stderrOf(error)
    IN  IF matchesAuthentication(errorMessage, stderr)
        THEN MCPError(AUTHENTICATION_ERROR, "AUTH_FAILED", errorMessage, FALSE,
                      errorGuidanceMap[AUTHENTICATION_ERROR])
        ELSE IF matchesServiceCapacity(errorMessage, stderr)
        THEN MCPError(SERVICE_CAPACITY_ERROR, "SERVICE_OVERLOAD", errorMessage, TRUE,
                      errorGuidanceMap[SERVICE_CAPACITY_ERROR])
        ELSE IF matchesQCliNotFound(errorMessage, stderr)
        THEN MCPError(Q_CLI_NOT_FOUND, "Q_CLI_MISSING", errorMessage, FALSE,
                      errorGuidanceMap[Q_CLI_NOT_FOUND])
        ELSE IF matchesNetwork(errorMessage, stderr)
        THEN MCPError(NETWORK_ERROR, "NETWORK_FAILED", errorMessage, TRUE,
                      errorGuidanceMap[NETWORK_ERROR])
        ELSE IF matchesConfiguration(errorMessage, stderr)
        THEN MCPError(CONFIGURATION_ERROR, "CONFIG_ERROR", errorMessage, FALSE,
                      errorGuidanceMap[CONFIGURATION_ERROR])
        ELSE MCPError(UNKNOWN_ERROR, "UNKNOWN", errorMessage, FALSE, unknownGuidance)

\* classifyError that marks a missing Q CLI as worth another attempt
classifyErrorRetryMissing(error, context) ==
    LET errorMessage == errorMessageOf(error)
        stderr == stderrOf(error)
    IN  IF matchesAuthentication(errorMessage, stderr)
        THEN MCPError(AUTHENTICATION_ERROR, "AUTH_FAILED", errorMessage, FALSE,
                      errorGuidanceMap[AUTHENTICATION_ERROR])
        ELSE IF matchesServiceCapacity(errorMessage, stderr)
        THEN MCPError(SERVICE_CAPACITY_ERROR, "SERVICE_OVERLOAD", errorMessage, TRUE,
                      errorGuidanceMap[SERVICE_CAPACITY_ERROR])
        ELSE IF matchesNetwork(errorMessage, stderr)
        THEN MCPError(NETWORK_ERROR, "NETWORK_FAILED", errorMessage, TRUE,
                      errorGuidanceMap[NETWORK_ERROR])
        ELSE IF matchesQCliNotFound(errorMessage, stderr)
        THEN MCPError(Q_CLI_NOT_FOUND, "Q_CLI_MISSING", errorMessage, TRUE,
                      errorGuidanceMap[Q_CLI_NOT_FOUND])
        ELSE IF matchesConfiguration(errorMessage, stderr)
        THEN MCPError(CONFIGURATION_ERROR, "CONFIG_ERROR", errorMessage, FALSE,
                      errorGuidanceMap[CONFIGURATION_ERROR])
        ELSE MCPError(UNKNOWN_ERROR, "UNKNOWN", errorMessage, FALSE, unknownGuidance)

\* private classifyError(error: any, context: string): MCPError
classifyError(error, context) ==
    LET errorMessage == errorMessageOf(error)
        stderr == stderrOf(error)
    IN  IF matchesAuthentication(errorMessage, stderr)
        THEN MCPError(AUTHENTICATION_ERROR, "AUTH_FAILED", errorMessage, FALSE,
                      errorGuidanceMap[AUTHENTICATION_ERROR])
        ELSE IF matchesServiceCapacity(errorMessage, stderr)
        THEN MCPError(SERVICE_CAPACITY_ERROR, "SERVICE_OVERLOAD", errorMessage, TRUE,
                      errorGuidanceMap[SERVICE_CAPACITY_ERROR])
        ELSE IF matchesNetwork(errorMessage, stderr)
        THEN MCPError(NETWORK_ERROR, "NETWORK_FAILED", errorMessage, TRUE,
                      errorGuidanceMap[NETWORK_ERROR])
        ELSE IF matchesQCliNotFound(errorMessage, stderr)
        THEN MCPError(Q_CLI_NOT_FOUND, "Q_CLI_MISSING", errorMessage, FALSE,
                      errorGuidanceMap[Q_CLI_NOT_FOUND])
        ELSE IF matchesConfiguration(errorMessage, stderr)
        THEN MCPError(CONFIGURATION_ERROR, "CONFIG_ERROR", errorMessage, FALSE,
                      errorGuidanceMap[CONFIGURATION_ERROR])
        ELSE MCPError(UNKNOWN_ERROR, "UNKNOWN", errorMessage, FALSE, unknownGuidance)

(***************************************************************************)
(* Retry coordinator                                                      *)
(***************************************************************************)
\* default of the maxRetries parameter of executeWithRetry
DefaultMaxRetries == 3
baseDelay == 500
maxDelay == 10000

\* largest maxRetries value the retry specification passes
MaxRetriesBound == 7
\* Math.random() is drawn from { k / JitterSteps : k \in 0 .. JitterSteps - 1 }
JitterSteps == 4

Requests == { "r1", "r2" }

Min(a, b) == IF a <= b THEN a ELSE b

\* the locals of an activation of executeWithRetry, with what it has done so
\* far: calls counts the invocations of operation, nwaits the backoff waits,
\* log holds the classified error of every failed attempt
RetryIdle ==
    [ pc |-> "idle", attempt |-> 0, maxRetries |-> 0, lastError |-> Undefined,
      outcome |-> NoValue, calls |-> 0, nwaits |-> 0, delay |-> 0,
      finalDelay |-> 0, log |-> << >> ]

\* forLoop with the loop test off by one (attempt <= maxRetries + 1)
forLoopOffByOne(st) ==
    IF st.attempt <= st.maxRetries + 1
    THEN [st EXCEPT !.pc = "operation", !.calls = @ + 1]
    ELSE [st EXCEPT !.pc = "thrown", !.outcome = st.lastError]

\* the loop test, then `return await operation()` or the `throw lastError`
\* after the loop
forLoop(st) ==
    IF st.attempt <= st.maxRetries
    THEN [st EXCEPT !.pc = "operation", !.calls = @ + 1]
    ELSE [st EXCEPT !.pc = "thrown", !.outcome = st.lastError]

\* entry of executeWithRetry: attempt = 1
executeWithRetry(maxRetries) ==
    forLoop([RetryIdle EXCEPT !.attempt = 1, !.maxRetries = maxRetries])

\* operation() resolved: return its value
operationResolved(st, value) ==
    [st EXCEPT !.pc = "returned", !.outcome = value]

\* backoffDelay without the cap at maxDelay
backoffDelayUncapped(attempt) == baseDelay * 2 ^ (attempt - 1)

\* Math.min(baseDelay * Math.pow(2, attempt - 1), maxDelay)
backoffDelay(attempt) == Min(baseDelay * 2 ^ (attempt - 1), maxDelay)

\* Math.random() * 0.25 * delay, with Math.random() = rnd / JitterSteps
jitterOf(delay, rnd) == (rnd * delay) \div (4 * JitterSteps)

\* the catch block without the test of classifiedError.retryable
operationRejectedRetryAll(st, error, context, rnd) ==
    LET classifiedError == classifyError(error, context)
        delay == backoffDelay(st.attempt)
        jitter == jitterOf(delay, rnd)
    IN  IF st.attempt = st.maxRetries
        THEN [st EXCEPT !.pc = "thrown", !.lastError = error,
                        !.outcome = classifiedError,
                        !.log = Append(@, classifiedError)]
        ELSE [st EXCEPT !.pc = "backoff", !.lastError = error,
                        !.delay = delay, !.finalDelay = delay + jitter,
                        !.nwaits = @ + 1,
                        !.log = Append(@, classifiedError)]

\* the catch block going on to the next attempt without the backoff wait
operationRejectedNoWait(st, error, context, rnd) ==
    LET classifiedError == classifyError(error, context)
    IN  IF ~classifiedError.retryable \/ st.attempt = st.maxRetries
        THEN [st EXCEPT !.pc = "thrown", !.lastError = error,
                        !.outcome = classifiedError,
                        !.log = Append(@, classifiedError)]
        ELSE forLoop([st EXCEPT !.attempt = @ + 1, !.lastError = error,
                                !.log = Append(@, classifiedError)])

\* the catch block without the test of attempt === maxRetries: a retryable
\* failure of the last attempt is followed by a wait, and the loop ends after
operationRejectedWaitsAfterLast(st, error, context, rnd) ==
    LET classifiedError == classifyError(error, context)
        delay == backoffDelay(st.attempt)
        jitter == jitterOf(delay, rnd)
    IN  IF ~classifiedError.retryable
        THEN [st EXCEPT !.pc = "thrown", !.lastError = error,
                        !.outcome = classifiedError,
                        !.log = Append(@, classifiedError)]
        ELSE [st EXCEPT !.pc = "backoff", !.lastError = error,
                        !.delay = delay, !.finalDelay = delay + jitter,
                        !.nwaits = @ + 1,
                        !.log = Append(@, classifiedError)]

\* operation() rejected: the catch block
operationRejected(st, error, context, rnd) ==
    LET classifiedError == classifyError(error, context)
        delay == backoffDelay(st.attempt)
        jitter == jitterOf(delay, rnd)
    IN  IF ~classifiedError.retryable \/ st.attempt = st.maxRetries
        THEN [st EXCEPT !.pc = "thrown", !.lastError = error,
                        !.outcome = classifiedError,
                        !.log = Append(@, classifiedError)]
        ELSE [st EXCEPT !.pc = "backoff", !.lastError = error,
                        !.delay = delay, !.finalDelay = delay + jitter,
                        !.nwaits = @ + 1,
                        !.log = Append(@, classifiedError)]

\* setTimeout whose callback never calls resolve: the wait does not end
timerNeverResolves(st) == st

\* the backoff timer fired: the catch block ends, and with it the scope of
\* delay and finalDelay; attempt++ and the loop test again
timerFired(st) ==
    forLoop([st EXCEPT !.attempt = @ + 1, !.delay = 0, !.finalDelay = 0])

(***************************************************************************)
(* Session directories.  A path is the sequence of its segments below the *)
(* filesystem root; a sessionId is undefined (NoValue) or a string, given *)
(* by the segments between its '/' characters ('' is << "" >>, '/etc' is  *)
(* << "", "etc" >>, '../a' is << "..", "a" >>).                           *)
(***************************************************************************)
SessionId(segments) == [ kind |-> "string", segments |-> segments ]

\* os.homedir()
HomeDir == << "home", "user" >>

\* path.join(os.homedir(), '.amazon-q-mcp', 'sessions')
SessionRoot == HomeDir \o << ".amazon-q-mcp", "sessions" >>

\* the prefixes of a path: the directory and its ancestors
Ancestors(p) == { SubSeq(p, 1, n) : n \in 0 .. Len(p) }

\* the home directory exists before the server runs
InitialDirs == Ancestors(HomeDir)

\* path.normalize of an absolute path: '' and '.' segments are dropped and
\* '..' removes the segment before it (nothing at the root)
RECURSIVE normalize(_, _)
normalize(done, rest) ==
    IF rest = << >> THEN done
    ELSE LET seg == Head(rest)
         IN  IF seg = "" \/ seg = "."
             THEN normalize(done, Tail(rest))
             ELSE IF seg = ".."
             THEN normalize(IF done = << >> THEN done
                            ELSE SubSeq(done, 1, Len(done) - 1), Tail(rest))
             ELSE normalize(Append(done, seg), Tail(rest))

\* path.join(base, relative)
pathJoin(base, segments) == normalize(<< >>, base \o segments)

\* the segments that hold a null byte
NullByteSegments == { "a<NUL>" }

hasNullByte(path) == \E i \in DOMAIN path : path[i] \in NullByteSegments

\* fs.existsSync: false for a path an fs call would reject
existsSync(fs, path) == ~hasNullByte(path) /\ path \in fs

\* what makes fs.mkdirSync throw besides a null byte in the path
FsFaults == { "none", "EACCES", "ENOSPC" }

\* the Error fs.mkdirSync throws
mkdirError(path, fault) ==
    IF hasNullByte(path)
    THEN RawError({"ERR_INVALID_ARG_VALUE", "without null bytes"}, {})
    ELSE IF fault = "EACCES"
    THEN RawError({"EACCES", "permission denied", "mkdir"}, {})
    ELSE RawError({"ENOSPC", "no space left on device", "mkdir"}, {})

\* sessionId || 'default'
effectiveSessionIdOf(sessionId) ==
    IF sessionId = NoValue \/ sessionId.segments = << "" >>
    THEN SessionId(<< "default" >>)
    ELSE sessionId

\* getSessionDirectory that creates the directory without asking whether it
\* exists, and without the recursive option
getSessionDirectoryNoExistsCheck(sessionId, fs, fault) ==
    LET effectiveSessionId == effectiveSessionIdOf(sessionId)
        sessionDir == pathJoin(SessionRoot, effectiveSessionId.segments)
    IN  IF hasNullByte(sessionDir) \/ fault # "none" \/ sessionDir \in fs
        THEN [ threw |-> TRUE, error |-> mkdirError(sessionDir, fault),
               sessionDir |-> sessionDir, fs |-> fs ]
        ELSE [ threw |-> FALSE, error |-> NoValue,
               sessionDir |-> sessionDir, fs |-> fs \cup Ancestors(sessionDir) ]

\* private getSessionDirectory(sessionId?: string): string, on filesystem fs;
\* fault is what fs.mkdirSync runs into, should it be called
getSessionDirectory(sessionId, fs, fault) ==
    LET effectiveSessionId == effectiveSessionIdOf(sessionId)
        sessionDir == pathJoin(SessionRoot, effectiveSessionId.segments)
    IN  IF existsSync(fs, sessionDir)
        THEN [ threw |-> FALSE, error |-> NoValue,
               sessionDir |-> sessionDir, fs |-> fs ]
        ELSE IF hasNullByte(sessionDir) \/ fault # "none"
        THEN [ threw |-> TRUE, error |-> mkdirError(sessionDir, fault),
               sessionDir |-> sessionDir, fs |-> fs ]
        ELSE [ threw |-> FALSE, error |-> NoValue,
               sessionDir |-> sessionDir, fs |-> fs \cup Ancestors(sessionDir) ]

NoRequest ==
    [ pc |-> "idle", name |-> "none", args |-> NoValue, sessionId |-> NoValue,
      sessionDir |-> << >>, response |-> NoValue ]

NoCall == NoValue

(***************************************************************************)
(* Session registry (src/src/session-logger.ts).  The registry file is    *)
(* absent, holds text JSON.parse rejects, or holds a JSON document mapping *)
(* sessionId to the SessionData of that session.  Every server process    *)
(* has one session logger with a sessionId of its own.                    *)
(***************************************************************************)
\* CONFIG.STALE_SESSION_CUTOFF_MS, 15 minutes
STALE_SESSION_CUTOFF_MS == 15 * 60 * 1000

\* number of server processes, each with a session of its own
MaxSessions == 2

Procs == 1 .. MaxSessions

\* the randomUUID() of each server process
LoggerIds == << "amazon-q-uuid1", "amazon-q-uuid2", "amazon-q-uuid3", "amazon-q-uuid4" >>

\* `amazon-q-${randomUUID()}`, the sessionId of the logger of process p
generateSessionId(p) == SessionId(<< LoggerIds[p] >>)

\* the values Date.now() takes
RegistryTimes ==
    { 0, STALE_SESSION_CUTOFF_MS - 1, STALE_SESSION_CUTOFF_MS,
      STALE_SESSION_CUTOFF_MS + 1 }

AbsentFile == [ kind |-> "absent" ]
InvalidFile == [ kind |-> "invalid" ]
JsonFile(sessions) == [ kind |-> "json", sessions |-> sessions ]

\* the fields of SessionData that change
SessionData(sessionId, lastActivity, status) ==
    [ sessionId |-> sessionId, lastActivity |-> lastActivity, status |-> status ]

\* what an fs call of a registry cycle runs into: nothing, readFileSync
\* throws, writeFileSync throws on opening the file, or writeFileSync throws
\* after it truncated the file
RegistryFaults == { "none", "read", "writeOpen", "writeTorn" }

\* fs.writeFileSync(file, JSON.stringify(sessions, null, 2)) under a fault
writeFileSync(file, sessions, fault) ==
    IF fault = "writeOpen" THEN [ threw |-> TRUE, file |-> file ]
    ELSE IF fault = "writeTorn" THEN [ threw |-> TRUE, file |-> InvalidFile ]
    ELSE [ threw |-> FALSE, file |-> JsonFile(sessions) ]

\* fs.readFileSync followed by JSON.parse throws
readThrows(file, fault) == fault = "read" \/ file.kind = "invalid"

\* sessions[sessionId] = sessionData
put(sessions, data) ==
    [ id \in DOMAIN sessions \cup {data.sessionId} |->
        IF id = data.sessionId THEN data ELSE sessions[id] ]

\* private registerSession(): the registry file after the call
registerSession(file, data, fault) ==
    IF file.kind = "absent" THEN writeFileSync(file, put(<< >>, data), fault).file
    ELSE IF readThrows(file, fault) THEN file
    ELSE writeFileSync(file, put(file.sessions, data), fault).file

\* updateSession that leaves the registry file alone
updateSessionSkipped(file, data, fault) == file

\* updateSession that refreshes the entry of the session only when the
\* registry still holds one
updateSessionExistingOnly(file, data, fault) ==
    IF file.kind = "absent" THEN file
    ELSE IF readThrows(file, fault) THEN file
    ELSE IF data.sessionId \notin DOMAIN file.sessions THEN file
    ELSE writeFileSync(file, put(file.sessions, data), fault).file

\* private updateSession(): the registry file after the call
updateSession(file, data, fault) ==
    IF file.kind = "absent" THEN file
    ELSE IF readThrows(file, fault) THEN file
    ELSE writeFileSync(file, put(file.sessions, data), fault).file

\* the test of the loop of cleanupStaleSessionsFromRegistry
isActive(session, now) == now - session.lastActivity < STALE_SESSION_CUTOFF_MS

\* cleanupStaleSessionsFromRegistry with the exception of a failed pass
\* thrown on to the caller
cleanupStaleNoCatch(file, now, fault) ==
    IF file.kind = "absent"
    THEN [ threw |-> FALSE, returned |-> 0, file |-> file ]
    ELSE IF readThrows(file, fault)
    THEN [ threw |-> TRUE, returned |-> 0, file |-> file ]
    ELSE LET sessions == file.sessions
             kept == { id \in DOMAIN sessions : isActive(sessions[id], now) }
             activeSessions == [ id \in kept |-> sessions[id] ]
             cleanedCount == Cardinality(DOMAIN sessions \ kept)
             written == writeFileSync(file, activeSessions, fault)
         IN  [ threw |-> written.threw, returned |-> cleanedCount, file |-> written.file ]

\* cleanupStaleSessionsFromRegistry keeping the entries up to the cutoff
\* (now - lastActivity <= cutoff)
cleanupStaleInclusive(file, now, fault) ==
    IF file.kind = "absent"
    THEN [ threw |-> FALSE, returned |-> 0, file |-> file ]
    ELSE IF readThrows(file, fault)
    THEN [ threw |-> FALSE, returned |-> 0, file |-> file ]
    ELSE LET sessions == file.sessions
             kept == { id \in DOMAIN sessions :
                         now - sessions[id].lastActivity <= STALE_SESSION_CUTOFF_MS }
             activeSessions == [ id \in kept |-> sessions[id] ]
             cleanedCount == Cardinality(DOMAIN sessions \ kept)
             written == writeFileSync(file, activeSessions, fault)
         IN  IF written.threw
             THEN [ threw |-> FALSE, returned |-> 0, file |-> written.file ]
             ELSE [ threw |-> FALSE, returned |-> cleanedCount, file |-> written.file ]

\* static cleanupStaleSessionsFromRegistry(): number, at time now: whether it
\* threw, the number it returned and the registry file after the call
cleanupStaleSessionsFromRegistry(file, now, fault) ==
    IF file.kind = "absent"
    THEN [ threw |-> FALSE, returned |-> 0, file |-> file ]
    ELSE IF readThrows(file, fault)
    THEN [ threw |-> FALSE, returned |-> 0, file |-> file ]
    ELSE LET sessions == file.sessions
             kept == { id \in DOMAIN sessions : isActive(sessions[id], now) }
             activeSessions == [ id \in kept |-> sessions[id] ]
             cleanedCount == Cardinality(DOMAIN sessions \ kept)
             written == writeFileSync(file, activeSessions, fault)
         IN  IF written.threw
             THEN [ threw |-> FALSE, returned |-> 0, file |-> written.file ]
             ELSE [ threw |-> FALSE, returned |-> cleanedCount, file |-> written.file ]

\* getActiveSessions keeping the entries up to the cutoff
\* (now - lastActivity <= cutoff)
getActiveSessionsInclusive(file, now, fault) ==
    IF file.kind = "absent" \/ readThrows(file, fault)
    THEN [ returned |-> << >>, file |-> file ]
    ELSE LET sessions == file.sessions
             kept == { id \in DOMAIN sessions :
                         now - sessions[id].lastActivity <= STALE_SESSION_CUTOFF_MS }
         IN  [ returned |-> [ id \in kept |-> sessions[id] ], file |-> file ]

\* static getActiveSessions(): Record<string, SessionData>, at time now: the
\* record it returned and the registry file after the call
getActiveSessions(file, now, fault) ==
    IF file.kind = "absent" \/ readThrows(file, fault)
    THEN [ returned |-> << >>, file |-> file ]
    ELSE LET sessions == file.sessions
             kept == { id \in DOMAIN sessions :
                         now - sessions[id].lastActivity < STALE_SESSION_CUTOFF_MS }
         IN  [ returned |-> [ id \in kept |-> sessions[id] ], file |-> file ]

\* what a cleanup pass can reach on disk: the registry file, the directories
\* and the session log files
Disk(file, directories, logs) ==
    [ registry |-> file, dirs |-> directories, logFiles |-> logs ]

\* the sessionIds a pass with outcome res took out of the registry
evictedBy(disk, res) ==
    IF disk.registry.kind = "json" /\ res.file.kind = "json"
    THEN DOMAIN disk.registry.sessions \ DOMAIN res.file.sessions
    ELSE {}

\* a cleanup pass that also deletes the log file and the directory of every
\* session it evicts
diskAfterCleanupPurging(disk, res) ==
    [ registry |-> res.file,
      dirs |-> { dir \in disk.dirs :
                   \A id \in evictedBy(disk, res) : dir # SessionRoot \o id.segments },
      logFiles |-> disk.logFiles \ evictedBy(disk, res) ]

\* the disk after a pass of cleanupStaleSessionsFromRegistry with outcome res:
\* writeFileSync(sessionsFile, ...) is the one call of it that writes
diskAfterCleanup(disk, res) == [ registry |-> res.file, dirs |-> disk.dirs,
                                 logFiles |-> disk.logFiles ]

\* a server process that has not started
LoggerOff ==
    [ pc |-> "off", sessionData |-> NoValue, lastLog |-> "none", cleanedCount |-> 0 ]

NoCleanup == NoValue

\* getActiveSessions not called yet
NoActive == NoValue

statusInit == active = NoActive

loggerInit ==
    /\ registryFile = AbsentFile
    /\ clock = 0
    /\ logger = [ p \in Procs |-> LoggerOff ]
    /\ lastCleanup = NoCleanup
    /\ logFiles = {}

(***************************************************************************)
(* Command executor: executeQCommandWithInputInDirectory.  One call       *)
(* creates a promise, spawns the child and registers the handlers of its  *)
(* events; the child writes chunks to stdout and stderr and exits, or     *)
(* could not be spawned at all.                                           *)
(***************************************************************************)
\* CONFIG.COMMAND_TIMEOUT_MS, 30 seconds
COMMAND_TIMEOUT_MS == 30000

\* CONFIG.MAX_OUTPUT_SIZE_BYTES, 1 MB
MAX_OUTPUT_SIZE_BYTES == 1024 * 1024

\* number of 'data' events of the child's stdout in one call
MaxChunks == 2

\* a chunk of output: its text and its size in bytes
Chunks ==
    { [ text |-> "answer", bytes |-> 1 ],
      [ text |-> "more", bytes |-> MAX_OUTPUT_SIZE_BYTES ] }

\* what the child writes to stderr in one 'data' event
StderrChunks == { "rate limit", "login required", "doctor", "other" }

\* the code of the 'close' event: an exit code, or null when a signal ended
\* the child
ExitCodes == { [ kind |-> "code", code |-> 0 ], [ kind |-> "code", code |-> 1 ],
               [ kind |-> "null" ] }

\* the code of 'close' after a failed spawn: the negative errno (ENOENT)
SpawnFailedCode == [ kind |-> "code", code |-> 0 - 2 ]

\* the values Date.now() takes while a child runs
ExecTimes == { 0, COMMAND_TIMEOUT_MS - 1, COMMAND_TIMEOUT_MS, COMMAND_TIMEOUT_MS + 1 }

RECURSIVE byteLength(_)
byteLength(chunks) ==
    IF chunks = << >> THEN 0 ELSE Head(chunks).bytes + byteLength(Tail(chunks))

Pending == [ state |-> "pending", value |-> NoValue, settled |-> 0 ]

\* resolve or reject of a promise where the last call wins
settleLastWins(promise, state, value) ==
    [ state |-> state, value |-> value, settled |-> promise.settled + 1 ]

\* resolve(value) and reject(error) of a promise: only the first call settles
settle(promise, state, value) ==
    IF promise.state = "pending"
    THEN [ state |-> state, value |-> value, settled |-> promise.settled + 1 ]
    ELSE promise

\* reject(new Error(`Q CLI exited with code ${code}: ${stderr}`))
exitError(stderr) == RawError({"Q CLI exited with code"} \cup stderr, {})

\* reject(new Error(`Failed to execute Q CLI: ${error.message}`))
spawnError(cause) == RawError({"Failed to execute Q CLI"} \cup cause, {})

\* child.on('close', (code) => ...)
onClose(ch, code) ==
    IF code = [ kind |-> "code", code |-> 0 ]
    THEN [ ch EXCEPT !.pc = "closed", !.closeCode = code,
                     !.promise = settle(@, "fulfilled",
                                        [ kind |-> "result", stdout |-> ch.stdout,
                                          stderr |-> ch.stderr ]) ]
    ELSE [ ch EXCEPT !.pc = "closed", !.closeCode = code,
                     !.promise = settle(@, "rejected",
                                        exitError(ch.stderr)) ]

\* child.on('error', (error) => ...)
onError(ch, cause) ==
    [ ch EXCEPT !.errorDelivered = TRUE,
                !.promise = settle(@, "rejected",
                                   spawnError(cause)) ]

\* the error of the child's 'error' event
SpawnErrors == { {"spawn q", "ENOENT"} }

\* no execute call yet
NoChild ==
    [ pc |-> "none", spawnedAt |-> 0, stdout |-> << >>, stderr |-> {},
      exitCode |-> NoValue, closeCode |-> NoValue, errorDelivered |-> FALSE,
      promise |-> Pending ]

execInit == child = NoChild

(***************************************************************************)
(* Configuration (src/src/constants.ts): CONFIG is computed once, when the *)
(* module is loaded, from the Q_MCP_* variables of the environment.       *)
(***************************************************************************)
EnvKeys ==
    { "Q_MCP_MAX_RETRIES", "Q_MCP_RETRY_BASE_DELAY", "Q_MCP_RETRY_MAX_DELAY",
      "Q_MCP_MAX_PROMPT" }

\* the value of an environment variable that holds the decimal digits of n
EnvString(n) == [ kind |-> "string", digits |-> n ]

\* an environment with none of the variables set
EnvUnset == [ key \in EnvKeys |-> NoValue ]

\* getEnvNumber(key, defaultValue): parseInt of the variable when it is set
getEnvNumber(environment, key, defaultValue) ==
    IF environment[key] = NoValue THEN defaultValue ELSE environment[key].digits

\* export const CONFIG, as far as the claims read it
CONFIG(environment) ==
    [ MAX_PROMPT_LENGTH |-> getEnvNumber(environment, "Q_MCP_MAX_PROMPT", 10000),
      MAX_RETRIES |-> getEnvNumber(environment, "Q_MCP_MAX_RETRIES", 3),
      RETRY_BASE_DELAY_MS |-> getEnvNumber(environment, "Q_MCP_RETRY_BASE_DELAY", 500),
      RETRY_MAX_DELAY_MS |-> getEnvNumber(environment, "Q_MCP_RETRY_MAX_DELAY", 10000) ]

configInit == env = EnvUnset

(***************************************************************************)
(* Registry cycles of concurrent writers:                                 *)
(* registerSession, updateSession, cleanupStaleSessionsFromRegistry and    *)
(* the cleanup handler each read the whole file, change the sessions in   *)
(* memory and write the whole file back.  Within one process a cycle runs *)
(* to its end, the calls being synchronous; the server processes of one   *)
(* user share the file, and nothing keeps the cycle of one from running   *)
(* between the fs calls of another.  writeFileSync itself opens the file  *)
(* with truncation and then writes the text.                              *)
(***************************************************************************)
\* the server processes that write the registry at the same time
Writers == { 1, 2 }

RaceTimes == { 0, STALE_SESSION_CUTOFF_MS }

\* no cycle in progress
NoCycle == [ pc |-> "idle", op |-> "none", sessions |-> << >>, clobbered |-> FALSE ]

\* what a cycle does after its read: end without a write, or write sessions
EndsCycle == [ writes |-> FALSE, sessions |-> << >> ]
WritesBack(sessions) == [ writes |-> TRUE, sessions |-> sessions ]

\* registerSession up to its writeFileSync
registerRead(file, data) ==
    IF file.kind = "absent" THEN WritesBack(put(<< >>, data))
    ELSE IF readThrows(file, "none") THEN EndsCycle
    ELSE WritesBack(put(file.sessions, data))

\* updateSession up to its writeFileSync
updateRead(file, data) ==
    IF file.kind = "absent" \/ readThrows(file, "none") THEN EndsCycle
    ELSE WritesBack(put(file.sessions, data))

\* cleanupStaleSessionsFromRegistry up to its writeFileSync
cleanupRead(file, now) ==
    IF file.kind = "absent" \/ readThrows(file, "none") THEN EndsCycle
    ELSE LET sessions == file.sessions
             kept == { id \in DOMAIN sessions : isActive(sessions[id], now) }
         IN  WritesBack([ id \in kept |-> sessions[id] ])

\* the cleanup handler up to its writeFileSync: delete sessions[this.sessionId]
removeRead(file, sessionId) ==
    IF file.kind = "absent" \/ readThrows(file, "none") THEN EndsCycle
    ELSE WritesBack([ id \in DOMAIN file.sessions \ {sessionId} |-> file.sessions[id] ])

\* the registry cycle of the cleanup handler and of cleanup() that deletes
\* every entry
deleteSessionAll(file, sessionId) ==
    IF removeRead(file, sessionId).writes THEN JsonFile(<< >>) ELSE file

\* the registry cycle of the cleanup handler and of cleanup(), run to its end:
\* the registry file after it
deleteSession(file, sessionId) ==
    LET outcome == removeRead(file, sessionId)
    IN  IF outcome.writes THEN JsonFile(outcome.sessions) ELSE file

\* the file after the text of sessions is written at offset 0 of a file that
\* another writer wrote since this one truncated it: what is left of a longer
\* text follows the new one.  Entries are of one size, lastActivity being a
\* millisecond timestamp.
overwrite(file, sessions) ==
    IF file.kind = "json" /\ Cardinality(DOMAIN file.sessions) <= Cardinality(DOMAIN sessions)
    THEN JsonFile(sessions)
    ELSE InvalidFile

raceInit == cycle = [ w \in Writers |-> NoCycle ]

(***************************************************************************)
(* Session log file                                                       *)
(***************************************************************************)
\* CONFIG.LOG_SIZE_LIMIT_BYTES, 50 MB
LOG_SIZE_LIMIT_BYTES == 50 * 1024 * 1024

\* CONFIG.LOG_SIZE_CHECK_INTERVAL
LOG_SIZE_CHECK_INTERVAL == 100

\* the bytes of one line of the log: JSON.stringify(logEntry) + '\n'
LogEntryBytes == { 1024, 2048 }

\* the bytes of the LOG_ROTATED line
LogRotatedEntryBytes == 256

\* number of logActivity calls followed from an initial state
MaxLogWrites == 105

\* what fs.renameSync of a rotation runs into
RotateFaults == { "none", "rename" }

\* the log file before the logger is constructed
NoLog == [ kind |-> "none" ]

\* the session log file and the logger's counter: bytes is the size of the
\* file, rotations the number of files renamed aside, appends the
\* appendFileSync calls of the last logActivity call, each with the number
\* of the logActivity call that made it and the size of the file it appended
\* to; since counts the logActivity calls followed
LogFile(bytes, logWriteCount) ==
    [ kind |-> "log", exists |-> bytes > 0, bytes |-> bytes,
      logWriteCount |-> logWriteCount, rotations |-> 0, renameFailed |-> FALSE,
      appends |-> << >>, since |-> 0 ]

\* the logActivity calls of a server up to SERVER_CONNECTED: SESSION_START,
\* SERVER_INIT, SERVER_READY, STATUS_CHANGE, TRANSPORT_INIT, SERVER_CONNECTED
StartupWrites == 6

\* a logger that has written lines of 1024 bytes up to one line below the
\* limit
NearLimitWrites == (LOG_SIZE_LIMIT_BYTES \div 1024) - 1

\* checkAndRotateLog() that never renames the file
checkAndRotateLogNever(lg, fault) == lg

\* private checkAndRotateLog(): a file larger than the limit is renamed aside
\* and logActivity(LOG_ROTATED) starts the new one; a failed rename is ignored
checkAndRotateLog(lg, fault) ==
    IF lg.exists /\ lg.bytes > LOG_SIZE_LIMIT_BYTES
    THEN IF fault = "rename" THEN [lg EXCEPT !.renameFailed = TRUE]
         ELSE [lg EXCEPT !.bytes = LogRotatedEntryBytes,
                         !.logWriteCount = @ + 1,
                         !.rotations = @ + 1,
                         !.appends = << [ count |-> lg.logWriteCount + 1, target |-> 0 ] >>]
    ELSE lg

\* logActivity(type, message, metadata) as far as the log file goes: the
\* counter, the size check on every LOG_SIZE_CHECK_INTERVAL-th call, and the
\* appendFileSync of a line of entryBytes bytes
logActivity(lg, entryBytes, fault) ==
    LET counted == [lg EXCEPT !.logWriteCount = @ + 1, !.appends = << >>,
                              !.renameFailed = FALSE, !.since = @ + 1]
        checked == IF counted.logWriteCount % LOG_SIZE_CHECK_INTERVAL = 0
                   THEN checkAndRotateLog(counted, fault)
                   ELSE counted
    IN  [checked EXCEPT !.exists = TRUE,
                        !.bytes = @ + entryBytes,
                        !.appends = Append(@, [ count |-> counted.logWriteCount,
                                                target |-> checked.bytes ])]

\* what a logActivity call runs into: a fault of the registry cycle of its
\* updateSession, or appendFileSync throwing for the entry and for the
\* LOG_ERROR entry of the catch block
LogFaults == RegistryFaults \cup { "append" }

\* the log file after a logActivity call whose appendFileSync threw
appendFailed(lg) ==
    [logActivity(lg, 0, "none") EXCEPT !.exists = lg.exists, !.appends = << >>]

\* logActivity without its catch blocks: what appendFileSync throws reaches
\* the caller
logActivityCallNoCatch(lg, file, data, fault) ==
    IF fault = "append"
    THEN [ threw |-> TRUE, log |-> appendFailed(lg), file |-> file ]
    ELSE [ threw |-> FALSE, log |-> logActivity(lg, 1024, "none"),
           file |-> updateSession(file, data, fault) ]

\* logActivity(type, message, metadata) under a fault: whether it threw, the
\* log file and the registry file after the call.  updateSession is not
\* reached when the append threw.
logActivityCall(lg, file, data, fault) ==
    IF fault = "append"
    THEN [ threw |-> FALSE, log |-> appendFailed(lg), file |-> file ]
    ELSE [ threw |-> FALSE, log |-> logActivity(lg, 1024, "none"),
           file |-> updateSession(file, data, fault) ]

logInit == log = NoLog

(***************************************************************************)
(* Argument preview (src/src/server.ts, getArgsPreview).  The arguments   *)
(* of a call are an object; an argument value is a string, given by its   *)
(* length, or a number.  A preview value says in which form the argument  *)
(* is logged and how many characters of the value the log entry carries.  *)
(***************************************************************************)
\* the argument names of a call
ArgKeys == { "prompt", "API_KEY", "dbPassword", "client_secret" }

\* String.prototype.toLowerCase
toLowerCase(key) ==
    CASE key = "API_KEY" -> "api_key"
      [] key = "dbPassword" -> "dbpassword"
      [] OTHER -> key

\* key.includes(pattern), for the keys above in lower case
keyIncludes(key, pattern) ==
    \/ key = "api_key" /\ pattern = "key"
    \/ key = "dbpassword" /\ pattern = "password"
    \/ key = "client_secret" /\ pattern = "secret"

\* value.length > 100
PreviewLimit == 100

\* argument values: strings that are short, at the limit and above it, and
\* a number
ArgValues ==
    { [ kind |-> "string", length |-> n ] : n \in { 8, PreviewLimit, PreviewLimit + 1 } }
        \cup { [ kind |-> "number", length |-> 1 ] }

\* the key names a value that is not to be logged
isSensitiveKey(key) ==
    \/ keyIncludes(toLowerCase(key), "password")
    \/ keyIncludes(toLowerCase(key), "key")
    \/ keyIncludes(toLowerCase(key), "secret")

\* the body of the loop of getArgsPreview: preview[key] for one entry, with
\* the number of characters of the value it carries
previewOf(key, value) ==
    IF value.kind = "string" /\ value.length > PreviewLimit
    THEN [ kind |-> "preview", form |-> "truncated", chars |-> PreviewLimit ]
    ELSE IF isSensitiveKey(key)
    THEN [ kind |-> "preview", form |-> "[REDACTED]", chars |-> 0 ]
    ELSE [ kind |-> "preview", form |-> "value", chars |-> value.length ]

\* private getArgsPreview(args: any): any, for an object args
getArgsPreview(args) == [ key \in DOMAIN args |-> previewOf(key, args[key]) ]

\* no TOOL_CALL entry written yet
NoPreview == NoValue

previewInit == preview = NoPreview

(***************************************************************************)
(* Specification SpecClassify: classifyError applied to raw errors        *)
(***************************************************************************)
\* number of phrases in the message of a raw error
MaxPhrases == 2

RECURSIVE PhraseSets(_)
PhraseSets(n) ==
    IF n = 0 THEN { {} }
    ELSE LET smaller == PhraseSets(n - 1)
         IN  smaller \cup { s \cup {p} : s \in smaller, p \in Phrases }

StderrTexts == { {}, {"login required"}, {"doctor"}, {"rate limit"}, {"other"} }

ClassifyInputs ==
    {Undefined} \cup { RawError(m, s) : m \in PhraseSets(MaxPhrases), s \in StderrTexts }

ClassifyInit ==
    /\ cerr \in ClassifyInputs
    /\ cres = NoValue
    /\ retry = [r \in Requests |-> RetryIdle]
    /\ req = [r \in Requests |-> NoRequest]
    /\ dirs = InitialDirs
    /\ bindings = {}
    /\ lastCall = NoCall
    /\ loggerInit
    /\ execInit
    /\ configInit
    /\ raceInit
    /\ logInit
    /\ previewInit
    /\ statusInit

Classify ==
    /\ cres = NoValue
    /\ cres' = classifyError(cerr, "ask_q")
    /\ UNCHANGED <<cerr, retry, req, dirs, bindings, lastCall, loggerVars, execVars, restVars>>

ClassifyNext == Classify

SpecClassify == ClassifyInit /\ [][ClassifyNext]_vars

(***************************************************************************)
(* Specification SpecRetry: executeWithRetry around an operation that     *)
(* resolves or rejects with any of RetryErrors                            *)
(***************************************************************************)
RetryErrors ==
    { RawError({"rate limit"}, {}),
      RawError({"ETIMEDOUT"}, {}),
      RawError({"command not found"}, {}),
      RawError({"authentication", "rate limit"}, {}),
      RawError({"Failed to execute Q CLI", "ENOENT"}, {}),
      RawError({"other"}, {}) }

RetryInit ==
    /\ cerr = Undefined
    /\ cres = NoValue
    /\ retry = [r \in Requests |-> RetryIdle]
    /\ req = [r \in Requests |-> NoRequest]
    /\ dirs = InitialDirs
    /\ bindings = {}
    /\ lastCall = NoCall
    /\ loggerInit
    /\ execInit
    /\ configInit
    /\ raceInit
    /\ logInit
    /\ previewInit
    /\ statusInit

RetryStart(r, maxRetries) ==
    /\ retry[r].pc = "idle"
    /\ retry' = [retry EXCEPT ![r] = executeWithRetry(maxRetries)]
    /\ UNCHANGED <<cerr, cres, req, dirs, bindings, lastCall, loggerVars, execVars, restVars>>

OperationResolves(r) ==
    /\ retry[r].pc = "operation"
    /\ retry' = [retry EXCEPT ![r] = operationResolved(@, [kind |-> "result", stdout |-> {"other"}])]
    /\ UNCHANGED <<cerr, cres, req, dirs, bindings, lastCall, loggerVars, execVars, restVars>>

OperationRejects(r, error, rnd) ==
    /\ retry[r].pc = "operation"
    /\ retry' = [retry EXCEPT ![r] = operationRejected(@, error, "test", rnd)]
    /\ UNCHANGED <<cerr, cres, req, dirs, bindings, lastCall, loggerVars, execVars, restVars>>

BackoffElapses(r) ==
    /\ retry[r].pc = "backoff"
    /\ retry' = [retry EXCEPT ![r] = timerFired(@)]
    /\ UNCHANGED <<cerr, cres, req, dirs, bindings, lastCall, loggerVars, execVars, restVars>>

RetryNext ==
    \/ \E maxRetries \in 0 .. MaxRetriesBound : RetryStart("r1", maxRetries)
    \/ OperationResolves("r1")
    \/ \E error \in RetryErrors, rnd \in 0 .. JitterSteps - 1 :
          OperationRejects("r1", error, rnd)
    \/ BackoffElapses("r1")

SpecRetry == RetryInit /\ [][RetryNext]_vars

\* every attempt of the operation settles (the premise of the termination
\* property) and the event loop fires the backoff timer
SpecRetryLive ==
    /\ RetryInit
    /\ [][RetryNext]_vars
    /\ WF_vars(\/ OperationResolves("r1")
               \/ \E error \in RetryErrors, rnd \in 0 .. JitterSteps - 1 :
                     OperationRejects("r1", error, rnd))
    /\ WF_vars(BackoffElapses("r1"))

(***************************************************************************)
(* Specification SpecSession: getSessionDirectory called with any of      *)
(* SessionIds, one call after the other                                   *)
(***************************************************************************)
SessionIds ==
    {NoValue} \cup
    { SessionId(segments) : segments \in
        { << "" >>, << "default" >>, << "a" >>, << "b" >>, << ".." >>,
          << "..", "a" >>, << "..", "..", "etc" >>, << "", "etc" >>,
          << ".", "a" >>, << "a", "..", "b" >>, << "a", "b" >>, << "a", "" >>,
          << "a<NUL>" >> } }

\* number of (sessionId, sessionDir) pairs followed
MaxBindings == 2

SessionInit ==
    /\ cerr = Undefined
    /\ cres = NoValue
    /\ retry = [r \in Requests |-> RetryIdle]
    /\ req = [r \in Requests |-> NoRequest]
    /\ dirs = InitialDirs
    /\ bindings = {}
    /\ lastCall = NoCall
    /\ loggerInit
    /\ execInit
    /\ configInit
    /\ raceInit
    /\ logInit
    /\ previewInit
    /\ statusInit

ResolveDirectory(sessionId, fault) ==
    LET res == getSessionDirectory(sessionId, dirs, fault)
        binding == [ sessionId |-> sessionId, sessionDir |-> res.sessionDir ]
    IN  /\ res.threw \/ binding \in bindings \/ Cardinality(bindings) < MaxBindings
        /\ dirs' = res.fs
        /\ bindings' = IF res.threw THEN bindings ELSE bindings \cup {binding}
        /\ lastCall' = [ kind |-> "call", sessionId |-> sessionId, fault |-> fault,
                         existed |-> existsSync(dirs, res.sessionDir),
                         threw |-> res.threw, sessionDir |-> res.sessionDir,
                         created |-> res.fs \ dirs ]
        /\ UNCHANGED <<cerr, cres, retry, req, loggerVars, execVars, restVars>>

SessionNext ==
    \E fault \in FsFaults, sessionId \in SessionIds : ResolveDirectory(sessionId, fault)

SpecSession == SessionInit /\ [][SessionNext]_vars

(***************************************************************************)
(* Specification SpecRegistry: server processes start, log activity and   *)
(* are killed while time passes; each runs the stale-session cleanup once, *)
(* at the end of run()                                                    *)
(***************************************************************************)
RegistryInit ==
    /\ cerr = Undefined
    /\ cres = NoValue
    /\ retry = [r \in Requests |-> RetryIdle]
    /\ req = [r \in Requests |-> NoRequest]
    /\ dirs = InitialDirs \cup Ancestors(SessionRoot \o << "a" >>)
    /\ bindings = {}
    /\ lastCall = NoCall
    /\ loggerInit
    /\ execInit
    /\ configInit
    /\ raceInit
    /\ logInit
    /\ previewInit
    /\ statusInit

\* new AmazonQSessionLogger(): registerSession, then logActivity(SESSION_START)
\* and with it updateSession
Construct(p) ==
    /\ logger[p].pc = "off"
    /\ LET data == SessionData(generateSessionId(p), clock, "starting")
           registered == registerSession(registryFile, data, "none")
       IN  /\ registryFile' = updateSession(registered, data, "none")
           /\ logger' = [logger EXCEPT ![p] =
                  [LoggerOff EXCEPT !.pc = "constructed", !.sessionData = data,
                                    !.lastLog = "SESSION_START"]]
           /\ logFiles' = logFiles \cup {data.sessionId}
    /\ UNCHANGED <<clock, lastCleanup, coreVars, execVars, restVars>>

\* run(): initialize() sets the status to ready, the startup entries are
\* logged, each with an updateSession, and the stale sessions are cleaned up
\* under fault; a CLEANUP entry is logged when some were.  Should the cleanup
\* throw, run() rejects and the process logs STARTUP_ERROR and exits.
Run(p, fault) ==
    /\ logger[p].pc = "constructed"
    /\ LET data == [logger[p].sessionData EXCEPT !.lastActivity = clock, !.status = "ready"]
           before == updateSession(registryFile, data, "none")
           res == cleanupStaleSessionsFromRegistry(before, clock, fault)
           disk == diskAfterCleanup(Disk(before, dirs, logFiles), res)
       IN  /\ dirs' = disk.dirs
           /\ logFiles' = disk.logFiles
           /\ registryFile' =
                  IF res.threw
                  THEN updateSession(res.file, [data EXCEPT !.status = "error"], "none")
                  ELSE IF res.returned > 0 THEN updateSession(res.file, data, "none")
                  ELSE res.file
           /\ logger' = [logger EXCEPT ![p] =
                  [ pc |-> IF res.threw THEN "failed" ELSE "listening",
                    sessionData |-> IF res.threw THEN [data EXCEPT !.status = "error"]
                                    ELSE data,
                    lastLog |-> IF res.threw THEN "STARTUP_ERROR"
                                ELSE IF res.returned > 0 THEN "CLEANUP"
                                ELSE "SERVER_CONNECTED",
                    cleanedCount |-> res.returned ]]
           /\ lastCleanup' =
                  [ kind |-> "cleanup", proc |-> p, now |-> clock, fault |-> fault,
                    before |-> before, after |-> res.file,
                    returned |-> res.returned, threw |-> res.threw ]
    /\ UNCHANGED <<clock, cerr, cres, retry, req, bindings, lastCall, execVars, restVars>>

\* logActivity of a running server (a tool call, its result): the entry is
\* appended and updateSession touches the registry
Activity(p) ==
    /\ logger[p].pc = "listening"
    /\ LET data == [logger[p].sessionData EXCEPT !.lastActivity = clock]
       IN  /\ registryFile' = updateSession(registryFile, data, "none")
           /\ logger' = [logger EXCEPT ![p].sessionData = data, ![p].lastLog = "TOOL_CALL"]
    /\ UNCHANGED <<clock, lastCleanup, logFiles, coreVars, execVars, restVars>>

\* the process is killed: no cleanup handler runs and its entry stays
Kill(p) ==
    /\ logger[p].pc \in { "constructed", "listening" }
    /\ logger' = [logger EXCEPT ![p].pc = "dead"]
    /\ UNCHANGED <<registryFile, clock, lastCleanup, logFiles, coreVars, execVars, restVars>>

\* time passes
Tick(t) ==
    /\ t > clock
    /\ clock' = t
    /\ UNCHANGED <<registryFile, logger, lastCleanup, logFiles, coreVars, execVars, restVars>>

RegistryNext ==
    \/ \E p \in Procs : Construct(p)
    \/ \E p \in Procs, fault \in RegistryFaults : Run(p, fault)
    \/ \E p \in Procs : Activity(p)
    \/ \E p \in Procs : Kill(p)
    \/ \E t \in RegistryTimes : Tick(t)

SpecRegistry == RegistryInit /\ [][RegistryNext]_vars

(***************************************************************************)
(* Specification SpecRace: the registry cycles of two server processes,   *)
(* each fs call a step of its own                                         *)
(***************************************************************************)
RaceInit ==
    /\ cerr = Undefined
    /\ cres = NoValue
    /\ retry = [r \in Requests |-> RetryIdle]
    /\ req = [r \in Requests |-> NoRequest]
    /\ dirs = InitialDirs
    /\ bindings = {}
    /\ lastCall = NoCall
    /\ loggerInit
    /\ execInit
    /\ configInit
    /\ raceInit
    /\ logInit
    /\ previewInit
    /\ statusInit

\* the cycle of writer w after the read of operation op
afterRead(w, op, outcome) ==
    IF outcome.writes
    THEN [cycle EXCEPT ![w] = [ pc |-> "read", op |-> op, sessions |-> outcome.sessions,
                                clobbered |-> FALSE ]]
    ELSE [cycle EXCEPT ![w] = NoCycle]

\* the constructor of the logger reaches registerSession: existsSync and
\* readFileSync
BeginRegister(w) ==
    /\ logger[w].pc = "off"
    /\ cycle[w].pc = "idle"
    /\ LET data == SessionData(generateSessionId(w), clock, "starting")
       IN  /\ logger' = [logger EXCEPT ![w] =
                  [LoggerOff EXCEPT !.pc = "listening", !.sessionData = data,
                                    !.lastLog = "SESSION_START"]]
           /\ cycle' = afterRead(w, "register", registerRead(registryFile, data))
    /\ UNCHANGED <<registryFile, clock, lastCleanup, logFiles, coreVars, execVars,
                   configVars, logVars, previewVars, statusVars>>

\* logActivity reaches updateSession: lastActivity is set, then existsSync and
\* readFileSync
BeginTouch(w) ==
    /\ logger[w].pc = "listening"
    /\ cycle[w].pc = "idle"
    /\ LET data == [logger[w].sessionData EXCEPT !.lastActivity = clock]
       IN  /\ logger' = [logger EXCEPT ![w].sessionData = data, ![w].lastLog = "TOOL_CALL"]
           /\ cycle' = afterRead(w, "touch", updateRead(registryFile, data))
    /\ UNCHANGED <<registryFile, clock, lastCleanup, logFiles, coreVars, execVars,
                   configVars, logVars, previewVars, statusVars>>

\* run() reaches cleanupStaleSessionsFromRegistry: existsSync and readFileSync
BeginEvict(w) ==
    /\ logger[w].pc = "listening"
    /\ cycle[w].pc = "idle"
    /\ cycle' = afterRead(w, "evict", cleanupRead(registryFile, clock))
    /\ UNCHANGED <<registryFile, clock, logger, lastCleanup, logFiles, coreVars, execVars,
                   configVars, logVars, previewVars, statusVars>>

\* the cleanup handler of an exiting process reaches its registry cycle
BeginRemove(w) ==
    /\ logger[w].pc = "listening"
    /\ cycle[w].pc = "idle"
    /\ logger' = [logger EXCEPT ![w].pc = "exited", ![w].lastLog = "SESSION_END"]
    /\ cycle' = afterRead(w, "remove",
                          removeRead(registryFile, logger[w].sessionData.sessionId))
    /\ UNCHANGED <<registryFile, clock, lastCleanup, logFiles, coreVars, execVars,
                   configVars, logVars, previewVars, statusVars>>

\* writeFileSync opens the file: it is truncated, and whatever another writer
\* wrote under a writer that has the file open is gone
OpenTruncate(w) ==
    /\ cycle[w].pc = "read"
    /\ registryFile' = InvalidFile
    /\ cycle' = [ v \in Writers |->
                    IF v = w THEN [cycle[v] EXCEPT !.pc = "opened"]
                    ELSE [cycle[v] EXCEPT !.clobbered = FALSE] ]
    /\ UNCHANGED <<clock, logger, lastCleanup, logFiles, coreVars, execVars,
                   configVars, logVars, previewVars, statusVars>>

\* writeFileSync writes the text and closes the file
WriteBack(w) ==
    /\ cycle[w].pc = "opened"
    /\ registryFile' =
           IF cycle[w].clobbered THEN overwrite(registryFile, cycle[w].sessions)
           ELSE JsonFile(cycle[w].sessions)
    /\ cycle' = [ v \in Writers |->
                    IF v = w THEN NoCycle
                    ELSE IF cycle[v].pc = "opened" THEN [cycle[v] EXCEPT !.clobbered = TRUE]
                    ELSE cycle[v] ]
    /\ UNCHANGED <<clock, logger, lastCleanup, logFiles, coreVars, execVars,
                   configVars, logVars, previewVars, statusVars>>

\* time passes
RaceTick(t) ==
    /\ t > clock
    /\ clock' = t
    /\ UNCHANGED <<registryFile, logger, lastCleanup, logFiles, coreVars, execVars,
                   restVars>>

RaceNext ==
    \/ \E w \in Writers : BeginRegister(w)
    \/ \E w \in Writers : BeginTouch(w)
    \/ \E w \in Writers : BeginEvict(w)
    \/ \E w \in Writers : BeginRemove(w)
    \/ \E w \in Writers : OpenTruncate(w)
    \/ \E w \in Writers : WriteBack(w)
    \/ \E t \in RaceTimes : RaceTick(t)

SpecRace == RaceInit /\ [][RaceNext]_vars

(***************************************************************************)
(* Specification SpecLifecycle: two server processes from start to exit.  *)
(* Each is constructed and run, its handler logs the tool calls it gets   *)
(* and their results, and it ends by a signal or exit (the cleanup        *)
(* handler runs), by cleanup(), or by being killed.  Every registry cycle *)
(* runs to its end.                                                       *)
(***************************************************************************)
\* the sessionId the transport gives the handler for a call
TrackedSessionIds == { NoValue, SessionId(<< "a" >>), SessionId(<< "b" >>) }

LifecycleInit ==
    /\ cerr = Undefined
    /\ cres = NoValue
    /\ retry = [r \in Requests |-> RetryIdle]
    /\ req = [r \in Requests |-> NoRequest]
    /\ dirs = InitialDirs
    /\ bindings = {}
    /\ lastCall = NoCall
    /\ loggerInit
    /\ execInit
    /\ configInit
    /\ raceInit
    /\ logInit
    /\ previewInit
    /\ statusInit

\* the CallToolRequestSchema handler of process p is entered for a call with
\* the caller's sessionId: logActivity('TOOL_CALL', ...)
ToolCallLogged(p, r, name, sessionId) ==
    /\ logger[p].pc = "listening"
    /\ req[r].pc = "idle"
    /\ LET data == [logger[p].sessionData EXCEPT !.lastActivity = clock]
       IN  /\ registryFile' = updateSession(registryFile, data, "none")
           /\ logger' = [logger EXCEPT ![p].sessionData = data, ![p].lastLog = "TOOL_CALL"]
    /\ req' = [req EXCEPT ![r] = [NoRequest EXCEPT !.pc = "handling", !.name = name,
                                                  !.sessionId = sessionId]]
    /\ UNCHANGED <<cerr, cres, retry, dirs, bindings, lastCall, clock, lastCleanup,
                   logFiles, execVars, restVars>>

\* the tool handler of the call returned or threw, and with it the locals of
\* the handler are gone:
\* logActivity('TOOL_SUCCESS', ...) or logActivity('TOOL_ERROR', ...)
ToolResultLogged(p, r, ok) ==
    /\ logger[p].pc = "listening"
    /\ req[r].pc = "handling"
    /\ LET data == [logger[p].sessionData EXCEPT !.lastActivity = clock]
       IN  /\ registryFile' = updateSession(registryFile, data, "none")
           /\ logger' = [logger EXCEPT ![p].sessionData = data,
                                       ![p].lastLog = IF ok THEN "TOOL_SUCCESS"
                                                      ELSE "TOOL_ERROR"]
    /\ req' = [req EXCEPT ![r] = NoRequest]
    /\ active' = NoActive
    /\ UNCHANGED <<cerr, cres, retry, dirs, bindings, lastCall, clock, lastCleanup,
                   logFiles, execVars, configVars, raceVars, logVars, previewVars>>

\* SIGINT, SIGTERM or exit: the cleanup closure of setupCleanupHandlers logs
\* SESSION_END and deletes the entry of its own session; the process ends.
\* The requests the process was handling end with it.
Exit(p) ==
    /\ logger[p].pc \in { "constructed", "listening" }
    /\ LET data == [logger[p].sessionData EXCEPT !.lastActivity = clock]
           logged == updateSession(registryFile, data, "none")
       IN  /\ registryFile' = deleteSession(logged, data.sessionId)
           /\ logger' = [logger EXCEPT ![p].pc = "exited", ![p].sessionData = data,
                                       ![p].lastLog = "SESSION_END"]
    /\ req' = IF p = 1 THEN [r \in Requests |-> NoRequest] ELSE req
    /\ active' = IF p = 1 THEN NoActive ELSE active
    /\ UNCHANGED <<cerr, cres, retry, dirs, bindings, lastCall, clock, lastCleanup,
                   logFiles, execVars, configVars, raceVars, logVars, previewVars>>

\* cleanup(), the public method of the logger: updateStatus('shutdown'),
\* logActivity(SESSION_CLEANUP), and the entry of the own session is deleted;
\* the process goes on
ManualCleanup(p) ==
    /\ logger[p].pc = "listening"
    /\ LET data == [logger[p].sessionData EXCEPT !.lastActivity = clock,
                                                 !.status = "shutdown"]
           logged == updateSession(registryFile, data, "none")
       IN  /\ registryFile' = deleteSession(logged, data.sessionId)
           /\ logger' = [logger EXCEPT ![p].pc = "cleanedUp", ![p].sessionData = data,
                                       ![p].lastLog = "SESSION_CLEANUP"]
    /\ UNCHANGED <<clock, lastCleanup, logFiles, coreVars, execVars, restVars>>

\* handleQStatus of process p, its diagnostics done, calls getActiveSessions;
\* fault is what the read of the registry runs into
GetActiveSessions(p, r, fault) ==
    /\ logger[p].pc = "listening"
    /\ req[r].pc = "handling" /\ req[r].name = "q_status"
    /\ LET res == getActiveSessions(registryFile, clock, fault)
       IN  /\ registryFile' = res.file
           /\ active' = [ kind |-> "getActiveSessions", now |-> clock, fault |-> fault,
                          before |-> registryFile, after |-> res.file,
                          returned |-> res.returned ]
    /\ UNCHANGED <<clock, logger, lastCleanup, logFiles, coreVars, execVars, configVars,
                   raceVars, logVars, previewVars>>

\* a logActivity or updateStatus call on a logger whose cleanup() has
\* completed: the entry is appended and updateSession touches the registry;
\* neither tests cleanupCompleted
ActivityAfterCleanup(p) ==
    /\ logger[p].pc = "cleanedUp"
    /\ LET data == [logger[p].sessionData EXCEPT !.lastActivity = clock]
       IN  /\ registryFile' = updateSession(registryFile, data, "none")
           /\ logger' = [logger EXCEPT ![p].sessionData = data,
                                       ![p].lastLog = "STATUS_CHANGE"]
    /\ UNCHANGED <<clock, lastCleanup, logFiles, coreVars, execVars, restVars>>

\* SIGINT, SIGTERM or exit of a process whose logger's cleanup() has
\* completed: the cleanup closure returns at its cleanupCompleted guard
ExitAfterCleanup(p) ==
    /\ logger[p].pc = "cleanedUp"
    /\ logger' = [logger EXCEPT ![p].pc = "exited"]
    /\ req' = IF p = 1 THEN [r \in Requests |-> NoRequest] ELSE req
    /\ active' = IF p = 1 THEN NoActive ELSE active
    /\ UNCHANGED <<cerr, cres, retry, dirs, bindings, lastCall, registryFile, clock,
                   lastCleanup, logFiles, execVars, configVars, raceVars, logVars,
                   previewVars>>

LifecycleNext ==
    \/ \E p \in Writers : Construct(p)
    \/ \E p \in Writers : Run(p, "none")
    \/ \E sessionId \in TrackedSessionIds : ToolCallLogged(1, "r1", "ask_q", sessionId)
    \/ ToolCallLogged(1, "r1", "q_status", NoValue)
    \/ \E fault \in { "none", "read" } : GetActiveSessions(1, "r1", fault)
    \/ \E ok \in BOOLEAN : ToolResultLogged(1, "r1", ok)
    \/ \E p \in Writers : Exit(p)
    \/ \E p \in Writers : ManualCleanup(p)
    \/ \E p \in Writers : ActivityAfterCleanup(p)
    \/ \E p \in Writers : ExitAfterCleanup(p)
    \/ \E p \in Writers : Kill(p)
    \/ \E t \in RegistryTimes : Tick(t)

SpecLifecycle == LifecycleInit /\ [][LifecycleNext]_vars

(***************************************************************************)
(* Specification SpecLog: the logActivity calls of one session logger,    *)
(* from a log file that is new or one line below the size limit           *)
(***************************************************************************)
LogInit ==
    /\ cerr = Undefined
    /\ cres = NoValue
    /\ retry = [r \in Requests |-> RetryIdle]
    /\ req = [r \in Requests |-> NoRequest]
    /\ dirs = InitialDirs
    /\ bindings = {}
    /\ lastCall = NoCall
    /\ clock = 0
    /\ lastCleanup = NoCleanup
    /\ LET data == SessionData(generateSessionId(1), 0, "ready")
       IN  /\ logger = [ p \in Procs |->
                           IF p = 1 THEN [LoggerOff EXCEPT !.pc = "listening",
                                                           !.sessionData = data,
                                                           !.lastLog = "SERVER_CONNECTED"]
                           ELSE LoggerOff ]
           /\ registryFile = JsonFile(put(<< >>, data))
           /\ logFiles = { data.sessionId }
    /\ execInit
    /\ configInit
    /\ raceInit
    /\ log \in { LogFile(StartupWrites * 1024, StartupWrites),
                 LogFile(NearLimitWrites * 1024, NearLimitWrites) }
    /\ previewInit
    /\ statusInit

\* one logActivity call of the running server: the line is appended, after
\* the size check when one is due, and updateSession touches the registry
LogWrite(entryBytes, fault) ==
    /\ log.since < MaxLogWrites
    /\ log' = logActivity(log, entryBytes, fault)
    /\ LET data == [logger[1].sessionData EXCEPT !.lastActivity = clock]
       IN  /\ registryFile' = updateSession(registryFile, data, "none")
           /\ logger' = [logger EXCEPT ![1].sessionData = data, ![1].lastLog = "TOOL_CALL"]
    /\ UNCHANGED <<clock, lastCleanup, logFiles, coreVars, execVars, configVars, raceVars, previewVars,
                   statusVars>>

LogNext == \E entryBytes \in LogEntryBytes, fault \in RotateFaults : LogWrite(entryBytes, fault)

SpecLog == LogInit /\ [][LogNext]_vars

(***************************************************************************)
(* Specification SpecExec: execute calls, one after the other, each with  *)
(* the events of its child                                                *)
(***************************************************************************)
ExecInit ==
    /\ cerr = Undefined
    /\ cres = NoValue
    /\ retry = [r \in Requests |-> RetryIdle]
    /\ req = [r \in Requests |-> NoRequest]
    /\ dirs = InitialDirs
    /\ bindings = {}
    /\ lastCall = NoCall
    /\ loggerInit
    /\ execInit
    /\ configInit
    /\ raceInit
    /\ logInit
    /\ previewInit
    /\ statusInit

\* executeQCommandWithInputInDirectory is called: the promise is created, the
\* child spawned, the handlers registered and the input written to stdin;
\* spawned is false when the executable could not be started
Execute(spawned) ==
    /\ child.pc \in { "none", "closed" }
    /\ child' = [NoChild EXCEPT !.pc = IF spawned THEN "running" ELSE "spawnFailed",
                                !.spawnedAt = clock]
    /\ UNCHANGED <<coreVars, loggerVars, restVars>>

\* child.stdout.on('data', ...)
StdoutData(chunk) ==
    /\ child.pc \in { "running", "exited" }
    /\ Len(child.stdout) < MaxChunks
    /\ child' = [child EXCEPT !.stdout = Append(@, chunk)]
    /\ UNCHANGED <<coreVars, loggerVars, restVars>>

\* child.stderr.on('data', ...)
StderrData(text) ==
    /\ child.pc \in { "running", "exited" }
    /\ text \notin child.stderr
    /\ child' = [child EXCEPT !.stderr = @ \cup {text}]
    /\ UNCHANGED <<coreVars, loggerVars, restVars>>

\* the child process ends, with an exit code or by a signal
ChildExits(code) ==
    /\ child.pc = "running"
    /\ child' = [child EXCEPT !.pc = "exited", !.exitCode = code]
    /\ UNCHANGED <<coreVars, loggerVars, restVars>>

\* the 'error' event of a child that could not be spawned
EmitError(cause) ==
    /\ child.pc = "spawnFailed"
    /\ child' = [onError(child, cause) EXCEPT !.pc = "errored", !.exitCode = SpawnFailedCode]
    /\ UNCHANGED <<coreVars, loggerVars, restVars>>

\* the 'close' event: after the child ended and its streams closed, and after
\* the 'error' event of a failed spawn
EmitClose ==
    /\ child.pc \in { "exited", "errored" }
    /\ child' = onClose(child, child.exitCode)
    /\ UNCHANGED <<coreVars, loggerVars, restVars>>

\* time passes while the call is pending
ExecTick(t) ==
    /\ child.pc # "none"
    /\ t > clock
    /\ clock' = t
    /\ UNCHANGED <<coreVars, registryFile, logger, lastCleanup, logFiles, execVars, restVars>>

ExecNext ==
    \/ \E spawned \in BOOLEAN : Execute(spawned)
    \/ \E chunk \in Chunks : StdoutData(chunk)
    \/ \E text \in StderrChunks : StderrData(text)
    \/ \E code \in ExitCodes : ChildExits(code)
    \/ \E cause \in SpawnErrors : EmitError(cause)
    \/ EmitClose
    \/ \E t \in ExecTimes : ExecTick(t)

SpecExec == ExecInit /\ [][ExecNext]_vars

\* the event loop delivers the events of a child that ended and time passes;
\* nothing makes a running child end
SpecExecLive ==
    /\ ExecInit
    /\ [][ExecNext]_vars
    /\ WF_vars(\E cause \in SpawnErrors : EmitError(cause))
    /\ WF_vars(EmitClose)
    /\ WF_vars(\E t \in ExecTimes : ExecTick(t))

(***************************************************************************)
(* Specification Spec: tool calls handled concurrently, each running the  *)
(* external tool in its session directory under executeWithRetry.  The    *)
(* handler's logActivity calls write the activity log and the registry of *)
(* the session logger; they are the Activity steps of SpecRegistry and    *)
(* leave the request as it is.                                            *)
(***************************************************************************)
ToolNames == { "ask_q", "take_q", "q_translate", "no_such_tool" }

\* the arguments of a call, by the string-valued fields they carry
ToolArgs == { [ kind |-> "args", fields |-> f ] : f \in { {"prompt"}, {"task"}, {} } }

CallSessionIds ==
    { NoValue, SessionId(<< "a" >>), SessionId(<< ".", "a" >>) }

\* what the external tool writes to stderr before a non-zero exit
ChildStderr ==
    { {"rate limit"}, {"command not found"}, {"authentication", "rate limit"}, {} }

\* what the external tool writes to stdout
ChildStdout == { {"answer"} }

\* a schema that accepts any arguments
schemaAcceptsAnything(name, args) == TRUE

\* schema.parse(args) of handleAskQ and handleQTranslate succeeds
schemaAccepts(name, args) ==
    IF name = "q_translate" THEN "task" \in args.fields ELSE "prompt" \in args.fields

\* the MCPError built from a ZodError
validationError ==
    MCPError(VALIDATION_ERROR, "INVALID_PARAMS", {"Invalid parameters", "Required"},
             FALSE, errorGuidanceMap[VALIDATION_ERROR])

\* the context string the tool handler passes on
contextOf(name) == IF name = "q_translate" THEN "q_translate" ELSE "ask_q"

\* a catch block that wraps whatever was thrown in a new unknown error
toolCatchAsUnknown(error, context) ==
    MCPError(UNKNOWN_ERROR, "UNKNOWN", errorMessageOf(error), FALSE, unknownGuidance)

\* the catch block of handleAskQ and handleQTranslate for an error that is
\* not a ZodError: an MCPError is thrown on as it is, anything else classified
toolCatch(error, context) ==
    IF error.kind = "MCPError" THEN error ELSE classifyError(error, context)

\* formatErrorResponse without the technical details
formatErrorResponseNoDetails(error) ==
    [ kind |-> "response", isError |-> TRUE,
      headline |-> error.guidance.message, type |-> error.type, code |-> error.code,
      retryable |-> error.retryable, actions |-> error.guidance.actions,
      details |-> {} ]

\* formatErrorResponse(error, requestId)
formatErrorResponse(error) ==
    [ kind |-> "response", isError |-> TRUE,
      headline |-> error.guidance.message, type |-> error.type, code |-> error.code,
      retryable |-> error.retryable, actions |-> error.guidance.actions,
      details |-> error.message ]

\* a handler without the catch block: the error goes on to the RPC layer
handlerCatchRethrow(error, name) == [ kind |-> "exception", error |-> error ]

\* the catch block of the CallToolRequestSchema handler
handlerCatch(error, name) ==
    IF error.kind = "MCPError" THEN formatErrorResponse(error)
    ELSE formatErrorResponse(classifyError(error, name))

\* the content of handleQTranslate, a fenced code block, returned by every
\* tool handler
successResponseFenced(name, result) ==
    [ kind |-> "response", isError |-> FALSE, text |-> result.stdout, fenced |-> TRUE ]

\* the content a tool handler returns for the value of executeWithRetry
successResponse(name, result) ==
    [ kind |-> "response", isError |-> FALSE, text |-> result.stdout,
      fenced |-> (name = "q_translate") ]

\* the request once its executeWithRetry activation is in state st: still
\* waiting, or answered with the value returned or the error thrown
afterRetry(rq, st) ==
    IF st.pc = "returned"
    THEN [rq EXCEPT !.pc = "responded", !.response = successResponse(rq.name, st.outcome)]
    ELSE IF st.pc = "thrown"
    THEN [rq EXCEPT !.pc = "responded",
                    !.response = handlerCatch(toolCatch(st.outcome, contextOf(rq.name)),
                                              rq.name)]
    ELSE rq

Init ==
    /\ cerr = Undefined
    /\ cres = NoValue
    /\ retry = [r \in Requests |-> RetryIdle]
    /\ req = [r \in Requests |-> NoRequest]
    /\ dirs = InitialDirs
    /\ bindings = {}
    /\ lastCall = NoCall
    /\ loggerInit
    /\ execInit
    /\ configInit
    /\ raceInit
    /\ logInit
    /\ previewInit
    /\ statusInit

\* a transport that reads the next message only when the handler of the
\* previous one has returned its response
requestHandlerReadySerial(r) == \A q \in Requests : req[q].pc = "idle"

\* the async request handler is invoked for every message as it is read;
\* handlers in flight are suspended at an await and hold nothing
requestHandlerReady(r) == req[r].pc = "idle"

\* a tools/call request arrives: the handler runs up to its first await
CallTool(r, name, args, sessionId, fault) ==
    /\ requestHandlerReady(r)
    /\ LET rq == [NoRequest EXCEPT !.name = name, !.args = args, !.sessionId = sessionId]
       IN  IF name \notin { "ask_q", "take_q", "q_translate" }
           THEN /\ req' = [req EXCEPT ![r] =
                      [rq EXCEPT !.pc = "responded",
                                 !.response = handlerCatch(RawError({"Unknown tool"}, {}), name)]]
                /\ UNCHANGED <<retry, dirs>>
           ELSE IF ~schemaAccepts(name, args)
           THEN /\ req' = [req EXCEPT ![r] =
                      [rq EXCEPT !.pc = "responded",
                                 !.response = handlerCatch(validationError, name)]]
                /\ UNCHANGED <<retry, dirs>>
           ELSE LET res == getSessionDirectory(sessionId, dirs, fault)
                    st == executeWithRetry(DefaultMaxRetries)
                IN  IF res.threw
                    THEN /\ req' = [req EXCEPT ![r] =
                               [rq EXCEPT !.pc = "responded",
                                          !.response = handlerCatch(
                                              toolCatch(res.error, contextOf(name)), name)]]
                         /\ UNCHANGED <<retry, dirs>>
                    ELSE /\ dirs' = res.fs
                         /\ retry' = [retry EXCEPT ![r] = st]
                         /\ req' = [req EXCEPT ![r] =
                               afterRetry([rq EXCEPT !.pc = "handling",
                                                     !.sessionDir = res.sessionDir], st)]
    /\ UNCHANGED <<cerr, cres, bindings, lastCall, loggerVars, execVars, restVars>>

\* the child closes with exit code 0
ChildExitsZero(r, stdout) ==
    /\ req[r].pc = "handling" /\ retry[r].pc = "operation"
    /\ LET st == operationResolved(retry[r], [kind |-> "result", stdout |-> stdout])
       IN  /\ retry' = [retry EXCEPT ![r] = st]
           /\ req' = [req EXCEPT ![r] = afterRetry(@, st)]
    /\ UNCHANGED <<cerr, cres, dirs, bindings, lastCall, loggerVars, execVars, restVars>>

\* the child closes with a non-zero exit code
ChildExitsNonZero(r, stderr, rnd) ==
    /\ req[r].pc = "handling" /\ retry[r].pc = "operation"
    /\ LET st == operationRejected(retry[r], exitError(stderr), contextOf(req[r].name), rnd)
       IN  /\ retry' = [retry EXCEPT ![r] = st]
           /\ req' = [req EXCEPT ![r] = afterRetry(@, st)]
    /\ UNCHANGED <<cerr, cres, dirs, bindings, lastCall, loggerVars, execVars, restVars>>

\* the child emits 'error': the tool could not be spawned
ChildError(r, cause, rnd) ==
    /\ req[r].pc = "handling" /\ retry[r].pc = "operation"
    /\ LET st == operationRejected(retry[r], spawnError(cause), contextOf(req[r].name), rnd)
       IN  /\ retry' = [retry EXCEPT ![r] = st]
           /\ req' = [req EXCEPT ![r] = afterRetry(@, st)]
    /\ UNCHANGED <<cerr, cres, dirs, bindings, lastCall, loggerVars, execVars, restVars>>

\* the backoff timer of a request fires: the next attempt spawns a child
BackoffTimer(r) ==
    /\ req[r].pc = "handling" /\ retry[r].pc = "backoff"
    /\ LET st == timerFired(retry[r])
       IN  /\ retry' = [retry EXCEPT ![r] = st]
           /\ req' = [req EXCEPT ![r] = afterRetry(@, st)]
    /\ UNCHANGED <<cerr, cres, dirs, bindings, lastCall, loggerVars, execVars, restVars>>

\* the response has been sent; the slot takes the next request
Respond(r) ==
    /\ req[r].pc = "responded"
    /\ req' = [req EXCEPT ![r] = NoRequest]
    /\ retry' = [retry EXCEPT ![r] = RetryIdle]
    /\ UNCHANGED <<cerr, cres, dirs, bindings, lastCall, loggerVars, execVars, restVars>>

Next ==
    \E r \in Requests :
        \/ \E name \in ToolNames, args \in ToolArgs, sessionId \in CallSessionIds,
              fault \in FsFaults : CallTool(r, name, args, sessionId, fault)
        \/ \E stdout \in ChildStdout : ChildExitsZero(r, stdout)
        \/ \E stderr \in ChildStderr, rnd \in 0 .. JitterSteps - 1 :
              ChildExitsNonZero(r, stderr, rnd)
        \/ \E cause \in SpawnErrors, rnd \in 0 .. JitterSteps - 1 : ChildError(r, cause, rnd)
        \/ BackoffTimer(r)
        \/ Respond(r)

Spec == Init /\ [][Next]_vars

(***************************************************************************)
(* Specification SpecCall: one tool call at a time, with the arguments in *)
(* full (the text of the prompt or task, its length, the optional model   *)
(* and agent), under an environment that sets some of the Q_MCP_*         *)
(* variables, and with the q_status tool and the children its             *)
(* diagnostics spawn.                                                     *)
(***************************************************************************)
\* export const ALLOWED_Q_COMMANDS
ALLOWED_Q_COMMANDS == { "chat", "translate", "status", "doctor", "--version" }

\* a string argument
Str(value) == [ kind |-> "string", value |-> value ]

\* the arguments of a call: the fields present, the text of prompt or task
\* and the number of its characters, and the optional model and agent
ArgsOf(fields, text, length, model, agent) ==
    [ kind |-> "args", fields |-> fields, text |-> text, length |-> length,
      model |-> model, agent |-> agent ]

\* numbers of characters of a prompt, around CONFIG.MAX_PROMPT_LENGTH
PromptLengths == { 1, CONFIG(EnvUnset).MAX_PROMPT_LENGTH, CONFIG(EnvUnset).MAX_PROMPT_LENGTH + 1 }

CallArgs ==
    { ArgsOf({"prompt"}, "what is S3", n, model, agent) :
        n \in PromptLengths, model \in { NoValue, Str("claude-4") },
        agent \in { NoValue, Str("dev") } }
    \cup { ArgsOf({"task"}, "list files", 10, NoValue, NoValue),
           ArgsOf({}, "", 0, NoValue, NoValue) }

\* the environments the server is started in
Envs ==
    { EnvUnset,
      [EnvUnset EXCEPT !["Q_MCP_MAX_RETRIES"] = EnvString(1)],
      [EnvUnset EXCEPT !["Q_MCP_MAX_RETRIES"] = EnvString(5),
                       !["Q_MCP_RETRY_BASE_DELAY"] = EnvString(100),
                       !["Q_MCP_RETRY_MAX_DELAY"] = EnvString(1000)] }

\* qArgs of handleAskQ with the prompt passed as an argument of q chat
qArgsPromptAsArgument(args) == << "chat", "--no-interactive", args.text >>

\* qArgs of handleAskQ
qArgs(args) ==
    << "chat", "--resume", "--no-interactive" >>
        \o (IF args.model # NoValue THEN << "--model", args.model.value >> ELSE << >>)
        \o (IF args.agent # NoValue THEN << "--agent", args.agent.value >> ELSE << >>)

\* spawn('q', argv, { cwd }) and what is written to the child's stdin
Invocation(argv, stdin, cwd) ==
    [ executable |-> "q", argv |-> argv, stdin |-> stdin, cwd |-> cwd ]

\* the child every attempt of the call rq spawns:
\* executeQCommandWithInputInDirectory(qArgs, prompt, sessionDir), and
\* (['translate'], task, sessionDir) for q_translate
spawnOf(rq) ==
    IF rq.name = "q_translate"
    THEN Invocation(<< "translate" >>, << rq.args.text, "\n" >>, rq.sessionDir)
    ELSE Invocation(qArgs(rq.args), << rq.args.text, "\n" >>, rq.sessionDir)

\* process.cwd()
ProcessCwd == HomeDir

\* the children runDiagnostics spawns: q --version and q status
diagnosticSpawns ==
    { Invocation(<< "--version" >>, << >>, ProcessCwd),
      Invocation(<< "status" >>, << >>, ProcessCwd) }

\* the response of handleQStatus
statusResponse(healthy) ==
    [ kind |-> "response", isError |-> FALSE,
      text |-> IF healthy THEN {"HEALTHY"} ELSE {"UNHEALTHY"}, fenced |-> FALSE ]

CallInit ==
    /\ cerr = Undefined
    /\ cres = NoValue
    /\ retry = [r \in Requests |-> RetryIdle]
    /\ req = [r \in Requests |-> NoRequest]
    /\ dirs = InitialDirs
    /\ bindings = {}
    /\ lastCall = NoCall
    /\ loggerInit
    /\ execInit
    /\ env \in Envs
    /\ raceInit
    /\ logInit
    /\ previewInit
    /\ statusInit

\* a tools/call request for q_status: runDiagnostics spawns q --version,
\* creates the sessions directory when it is absent and can be, and spawns
\* q status; the status text is the response
CallQStatus(r, qCliAvailable, fault) ==
    /\ req[r].pc = "idle"
    /\ dirs' = IF fault = "none" THEN dirs \cup Ancestors(SessionRoot) ELSE dirs
    /\ req' = [req EXCEPT ![r] =
           [NoRequest EXCEPT !.pc = "responded", !.name = "q_status",
                             !.args = ArgsOf({}, "", 0, NoValue, NoValue),
                             !.response = statusResponse(qCliAvailable /\ fault = "none")]]
    /\ UNCHANGED <<cerr, cres, retry, bindings, lastCall, loggerVars, execVars, restVars>>

CallNext ==
    \/ \E name \in ToolNames, args \in CallArgs, sessionId \in CallSessionIds,
          fault \in FsFaults : CallTool("r1", name, args, sessionId, fault)
    \/ \E qCliAvailable \in BOOLEAN, fault \in FsFaults :
          CallQStatus("r1", qCliAvailable, fault)
    \/ \E stdout \in ChildStdout : ChildExitsZero("r1", stdout)
    \/ \E stderr \in ChildStderr, rnd \in 0 .. JitterSteps - 1 :
          ChildExitsNonZero("r1", stderr, rnd)
    \/ \E cause \in SpawnErrors, rnd \in 0 .. JitterSteps - 1 : ChildError("r1", cause, rnd)
    \/ BackoffTimer("r1")
    \/ Respond("r1")

SpecCall == CallInit /\ [][CallNext]_vars

(***************************************************************************)
(* Specification SpecLogging: the logActivity calls of the request        *)
(* handler around a tool handler that returns or throws, and the          *)
(* constructor of a second logger, each under any of LogFaults            *)
(***************************************************************************)
\* the logActivity calls after which the specification takes no new request
MaxLoggedCalls == 6

\* what leaves the request handler when a logActivity call in it throws
uncaught == [ kind |-> "exception", isError |-> TRUE ]

\* the executeWithRetry activation of a tool handler that returned (ok) or
\* threw the classified error of a child that exited with 'command not found'
toolOutcome(name, ok) ==
    IF ok
    THEN operationResolved(executeWithRetry(DefaultMaxRetries),
                           [kind |-> "result", stdout |-> {"answer"}])
    ELSE operationRejected(executeWithRetry(DefaultMaxRetries),
                           exitError({"command not found"}), contextOf(name), 0)

\* the request handler is entered: logActivity('TOOL_CALL', ...), before its
\* try block
LoggedCall(r, name, fault) ==
    /\ logger[1].pc = "listening"
    /\ req[r].pc = "idle"
    /\ log.since < MaxLoggedCalls
    /\ LET data == [logger[1].sessionData EXCEPT !.lastActivity = clock]
           call == logActivityCall(log, registryFile, data, fault)
       IN  /\ log' = call.log
           /\ registryFile' = call.file
           /\ logger' = [logger EXCEPT ![1].sessionData = data, ![1].lastLog = "TOOL_CALL"]
           /\ req' = [req EXCEPT ![r] =
                  IF call.threw
                  THEN [NoRequest EXCEPT !.pc = "responded", !.name = name,
                                         !.response = uncaught]
                  ELSE [NoRequest EXCEPT !.pc = "handling", !.name = name]]
    /\ UNCHANGED <<cerr, cres, retry, dirs, bindings, lastCall, clock, lastCleanup,
                   logFiles, execVars, configVars, raceVars, previewVars, statusVars>>

\* the tool handler returned or threw: logActivity('TOOL_SUCCESS', ...) in the
\* try block, or logActivity('TOOL_ERROR', ...) in the catch block, and the
\* response
LoggedResult(r, ok, fault) ==
    /\ req[r].pc = "handling"
    /\ retry[r].pc = "idle"
    /\ LET st == toolOutcome(req[r].name, ok)
           data == [logger[1].sessionData EXCEPT !.lastActivity = clock]
           done == logActivityCall(log, registryFile, data, fault)
       IN  /\ log' = done.log
           /\ registryFile' = done.file
           /\ logger' = [logger EXCEPT ![1].sessionData = data,
                                       ![1].lastLog = IF ok THEN "TOOL_SUCCESS"
                                                      ELSE "TOOL_ERROR"]
           /\ retry' = [retry EXCEPT ![r] = st]
           /\ req' = [req EXCEPT ![r] =
                  IF done.threw
                  THEN [req[r] EXCEPT !.pc = "responded", !.response = uncaught]
                  ELSE afterRetry(req[r], st)]
    /\ UNCHANGED <<cerr, cres, dirs, bindings, lastCall, clock, lastCleanup,
                   logFiles, execVars, configVars, raceVars, previewVars, statusVars>>

\* new AmazonQSessionLogger() in another process, under a fault of the
\* registry: registerSession, then logActivity(SESSION_START) and with it
\* updateSession
ConstructUnder(p, fault) ==
    /\ logger[p].pc = "off"
    /\ LET data == SessionData(generateSessionId(p), clock, "starting")
           registered == registerSession(registryFile, data, fault)
       IN  /\ registryFile' = updateSession(registered, data, fault)
           /\ logger' = [logger EXCEPT ![p] =
                  [LoggerOff EXCEPT !.pc = "constructed", !.sessionData = data,
                                    !.lastLog = "SESSION_START"]]
           /\ logFiles' = logFiles \cup {data.sessionId}
    /\ UNCHANGED <<clock, lastCleanup, coreVars, execVars, restVars>>

LoggingNext ==
    \/ \E name \in { "ask_q", "q_translate" }, fault \in LogFaults :
          LoggedCall("r1", name, fault)
    \/ \E ok \in BOOLEAN, fault \in LogFaults : LoggedResult("r1", ok, fault)
    \/ Respond("r1")
    \/ \E fault \in RegistryFaults : ConstructUnder(2, fault)

SpecLogging == LogInit /\ [][LoggingNext]_vars

(***************************************************************************)
(* Specification SpecPreview: the TOOL_CALL entry of the request handler  *)
(* for any arguments object over ArgKeys and ArgValues                    *)
(***************************************************************************)
\* the arguments objects of a call: any of the keys, each with any value
PreviewArgs == UNION { [ keys -> ArgValues ] : keys \in SUBSET ArgKeys }

PreviewInit ==
    /\ cerr = Undefined
    /\ cres = NoValue
    /\ retry = [r \in Requests |-> RetryIdle]
    /\ req = [r \in Requests |-> NoRequest]
    /\ dirs = InitialDirs
    /\ bindings = {}
    /\ lastCall = NoCall
    /\ loggerInit
    /\ execInit
    /\ configInit
    /\ raceInit
    /\ logInit
    /\ previewInit
    /\ statusInit

\* logActivity('TOOL_CALL', ..., { toolName, argsPreview: getArgsPreview(args), ... })
LogToolCall(args) ==
    /\ preview' = [ kind |-> "TOOL_CALL", args |-> args,
                    argsPreview |-> getArgsPreview(args) ]
    /\ UNCHANGED <<coreVars, loggerVars, execVars, configVars, raceVars, logVars,
                   statusVars>>

PreviewNext == \E args \in PreviewArgs : LogToolCall(args)

SpecPreview == PreviewInit /\ [][PreviewNext]_vars

(***************************************************************************)
(* Properties                                                             *)
(***************************************************************************)

\* C1: executeWithRetry invokes the operation at most maxRetries times,
\* whatever maxRetries is and however the attempts end.
C1_AtMostMaxAttempts ==
    \A r \in Requests :
        retry[r].pc # "idle" => retry[r].calls <= retry[r].maxRetries

\* a sequence that used all of its seven attempts
C1_Witness ==
    /\ retry["r1"].pc = "thrown"
    /\ retry["r1"].maxRetries = MaxRetriesBound
    /\ retry["r1"].calls = retry["r1"].maxRetries

\* C2: a failure classified non-retryable on attempt k ends the sequence at
\* attempt k: it is the last failure of the log, the operation was invoked k
\* times and no more, k - 1 waits happened and none follows, and the error
\* thrown is that attempt's classified error.
C2_NonRetryableEndsSequence ==
    \A r \in Requests :
        \A k \in 1 .. Len(retry[r].log) :
            ~retry[r].log[k].retryable =>
                /\ k = Len(retry[r].log)
                /\ retry[r].pc = "thrown"
                /\ retry[r].outcome = retry[r].log[k]
                /\ retry[r].calls = k
                /\ retry[r].nwaits = k - 1

\* 'command not found' on the very first attempt of a sequence of three
C2_Witness ==
    /\ retry["r1"].maxRetries = DefaultMaxRetries
    /\ Len(retry["r1"].log) = 1
    /\ retry["r1"].log[1].type = Q_CLI_NOT_FOUND
    /\ includes(retry["r1"].log[1].message, "command not found")
    /\ retry["r1"].pc = "thrown"
    /\ retry["r1"].calls = 1
    /\ retry["r1"].nwaits = 0

\* C4: the wait after failed attempt k is at least min(base * 2^(k-1), maxDelay)
\* and at most 1.25 times that, hence never more than 1.25 * maxDelay.
C4_BackoffBounds ==
    \A r \in Requests :
        retry[r].pc = "backoff" =>
            LET k == retry[r].attempt
                low == IF baseDelay * 2 ^ (k - 1) <= maxDelay
                       THEN baseDelay * 2 ^ (k - 1) ELSE maxDelay
            IN  /\ low <= retry[r].finalDelay
                /\ 4 * retry[r].finalDelay <= 5 * low
                /\ 4 * retry[r].finalDelay <= 5 * maxDelay

\* a jittered wait after the sixth attempt, where the cap applies
C4_Witness ==
    /\ retry["r1"].pc = "backoff"
    /\ retry["r1"].attempt = 6
    /\ retry["r1"].delay = maxDelay
    /\ retry["r1"].finalDelay > maxDelay

\* the categories classifyError tests for, in the order of the claim, with the
\* substrings each looks for in the message and in stderr
Precedence ==
    << AUTHENTICATION_ERROR, SERVICE_CAPACITY_ERROR, NETWORK_ERROR,
       Q_CLI_NOT_FOUND, CONFIGURATION_ERROR >>

MessagePatterns(type) ==
    CASE type = AUTHENTICATION_ERROR ->
           { "AccessDeniedException", "UnauthorizedOperation", "authentication" }
      [] type = SERVICE_CAPACITY_ERROR ->
           { "trouble responding right now", "capacity", "rate limit", "throttle" }
      [] type = NETWORK_ERROR ->
           { "ECONNREFUSED", "ETIMEDOUT", "ENOTFOUND", "SSL", "certificate" }
      [] type = Q_CLI_NOT_FOUND ->
           { "Failed to execute Q CLI", "ENOENT", "command not found" }
      [] type = CONFIGURATION_ERROR -> { "configuration", "config" }

StderrPatterns(type) ==
    CASE type = AUTHENTICATION_ERROR -> { "login required" }
      [] type = CONFIGURATION_ERROR -> { "doctor" }
      [] OTHER -> {}

MatchingCategories(error) ==
    { i \in DOMAIN Precedence :
        \/ \E p \in MessagePatterns(Precedence[i]) : includes(errorMessageOf(error), p)
        \/ \E p \in StderrPatterns(Precedence[i]) : includes(stderrOf(error), p) }

\* C5: classifyError returns the first category, in the order Authentication,
\* ServiceCapacity, Network, ToolMissing, Configuration, that has a pattern
\* occurring in the error, and Unknown exactly when none has.
C5_FirstMatchWins ==
    cres # NoValue =>
        LET matching == MatchingCategories(cerr)
        IN  IF matching = {}
            THEN cres.type = UNKNOWN_ERROR
            ELSE /\ cres.type = Precedence[CHOOSE i \in matching : \A j \in matching : i <= j]
                 /\ cres.type # UNKNOWN_ERROR

\* an error matching both Network and ToolMissing patterns, classified Network
C5_Witness ==
    /\ cres # NoValue
    /\ MatchingCategories(cerr) = {3, 4}
    /\ cres.type = NETWORK_ERROR

\* C6: the retryable flag of a classified error is a function of its category:
\* true for ServiceCapacity and Network, false for every other category, and
\* equal to the flag of the category's guidance.
C6_RetryableByCategory ==
    /\ \A t \in DOMAIN errorGuidanceMap :
          errorGuidanceMap[t].retryable = (t \in {SERVICE_CAPACITY_ERROR, NETWORK_ERROR})
    /\ validationError.type = VALIDATION_ERROR /\ ~validationError.retryable
    /\ cres # NoValue =>
          /\ cres.type \in ErrorType
          /\ cres.retryable = (cres.type \in {SERVICE_CAPACITY_ERROR, NETWORK_ERROR})
          /\ cres.guidance.retryable = cres.retryable

\* a retryable and a non-retryable classification exist; this one is retryable
C6_Witness ==
    /\ cres # NoValue
    /\ cres.type = SERVICE_CAPACITY_ERROR
    /\ cres.retryable
    /\ includes(errorMessageOf(cerr), "throttle")

\* C3: when the tool fails twice with 'rate limit' in its stderr and succeeds
\* on the third attempt, both failures were classified ServiceCapacity and
\* retryable, two backoff waits happened, the operation ran three times and
\* the caller gets the stdout text, not an error.
C3_RateLimitThenSuccess ==
    \A r \in Requests :
        ( /\ retry[r].pc = "returned"
          /\ Len(retry[r].log) = 2
          /\ \A k \in 1 .. 2 : includes(retry[r].log[k].message, "rate limit") )
        => /\ \A k \in 1 .. 2 :
                /\ retry[r].log[k].type = SERVICE_CAPACITY_ERROR
                /\ retry[r].log[k].retryable
           /\ retry[r].maxRetries = DefaultMaxRetries
           /\ retry[r].nwaits = 2
           /\ retry[r].calls = 3
           /\ req[r].pc = "responded"
           /\ ~req[r].response.isError
           /\ req[r].response.text = retry[r].outcome.stdout
           /\ req[r].response.text \in ChildStdout

\* ask_q answered after two 'rate limit' failures and a success
C3_Witness ==
    /\ req["r1"].name = "ask_q"
    /\ req["r1"].pc = "responded"
    /\ ~req["r1"].response.isError
    /\ retry["r1"].pc = "returned"
    /\ Len(retry["r1"].log) = 2
    /\ \A k \in 1 .. 2 : includes(retry["r1"].log[k].message, "rate limit")
    /\ retry["r1"].nwaits = 2

\* a path strictly below the session root
StrictlyInsideRoot(path) ==
    /\ Len(path) > Len(SessionRoot)
    /\ SubSeq(path, 1, Len(SessionRoot)) = SessionRoot

\* C7: for every sessionId the directory getSessionDirectory returns lies
\* strictly inside the session root, and so does every directory it creates
\* (the root and its parents apart).
C7_StaysInsideRoot ==
    /\ \A b \in bindings : StrictlyInsideRoot(b.sessionDir)
    /\ \A d \in dirs \ InitialDirs :
          d \in Ancestors(SessionRoot) \/ StrictlyInsideRoot(d)

\* CONFIG.SESSION_ID_MAX_LENGTH
SESSION_ID_MAX_LENGTH == 50

\* the characters of a path segment
SegmentChars(segment) ==
    CASE segment = "" -> << >>
      [] segment = "." -> << "." >>
      [] segment = ".." -> << ".", "." >>
      [] segment = "a" -> << "a" >>
      [] segment = "b" -> << "b" >>
      [] segment = "etc" -> << "e", "t", "c" >>
      [] segment = "default" -> << "d", "e", "f", "a", "u", "l", "t" >>
      [] segment = "a<NUL>" -> << "a", "<NUL>" >>
      [] OTHER -> << "?" >>

\* the characters of a string given by its segments, '/' between them
RECURSIVE StringChars(_)
StringChars(segments) ==
    IF segments = << >> THEN << >>
    ELSE IF Len(segments) = 1 THEN SegmentChars(segments[1])
    ELSE SegmentChars(segments[1]) \o << "/" >> \o StringChars(Tail(segments))

IsSafeChar(c) == c \in { "a", "b", "c", "d", "e", "f", "l", "t", "u", "-" }

\* the sessionId reduced to alphanumerics and hyphens, cut at the maximum length
SanitizedName(sessionId) ==
    LET kept == SelectSeq(StringChars(effectiveSessionIdOf(sessionId).segments), IsSafeChar)
    IN  SubSeq(kept, 1, Min(Len(kept), SESSION_ID_MAX_LENGTH))

\* C8: the directory of a session is the session root plus one name, and the
\* name is the sanitized sessionId: only alphanumerics and hyphens, at most
\* SESSION_ID_MAX_LENGTH characters, hence no path separator.
C8_SanitizedDirectoryName ==
    \A b \in bindings :
        /\ Len(b.sessionDir) = Len(SessionRoot) + 1
        /\ SubSeq(b.sessionDir, 1, Len(SessionRoot)) = SessionRoot
        /\ SegmentChars(b.sessionDir[Len(b.sessionDir)]) = SanitizedName(b.sessionId)

C10_DistinctSessionsDistinctDirs ==
    \A r1, r2 \in Requests :
        ( /\ req[r1].pc = "handling"
          /\ req[r2].pc = "handling"
          /\ req[r1].sessionId # req[r2].sessionId )
        => req[r1].sessionDir # req[r2].sessionDir

\* the stale entries of a registry document at time now
StaleIds(sessions, now) ==
    { id \in DOMAIN sessions : now - sessions[id].lastActivity >= STALE_SESSION_CUTOFF_MS }

\* a cleanup pass whose read, parse or write of the registry failed
CleanupFailed(c) ==
    /\ c.before.kind # "absent"
    /\ c.fault # "none" \/ c.before.kind = "invalid"

\* C11: a cleanupStale pass that reads, parses and writes the registry removes
\* exactly the entries with now - lastActivity >= cutoff (15 minutes), leaves
\* every other entry as it was, returns the number of entries removed and
\* leaves a valid sessionId-to-record document.
C11_EvictsExactlyStale ==
    ( /\ lastCleanup # NoCleanup
      /\ lastCleanup.before.kind = "json"
      /\ ~CleanupFailed(lastCleanup) )
    => LET before == lastCleanup.before.sessions
           stale == StaleIds(before, lastCleanup.now)
       IN  /\ lastCleanup.after.kind = "json"
           /\ DOMAIN lastCleanup.after.sessions = DOMAIN before \ stale
           /\ \A id \in DOMAIN before \ stale :
                 lastCleanup.after.sessions[id] = before[id]
           /\ lastCleanup.returned = Cardinality(stale)
           /\ ~lastCleanup.threw

\* a pass that removed an entry exactly cutoff old and kept a younger one
C11_Witness ==
    /\ lastCleanup # NoCleanup
    /\ lastCleanup.fault = "none"
    /\ lastCleanup.before.kind = "json"
    /\ lastCleanup.returned = 1
    /\ \E id \in DOMAIN lastCleanup.before.sessions :
          /\ lastCleanup.now - lastCleanup.before.sessions[id].lastActivity
                = STALE_SESSION_CUTOFF_MS
          /\ id \notin DOMAIN lastCleanup.after.sessions
    /\ \E id \in DOMAIN lastCleanup.after.sessions :
          lastCleanup.after.sessions[id].lastActivity = lastCleanup.now

\* C12: when the read, the parse or the write of the registry fails during
\* cleanupStale, the call returns 0 and throws nothing, an unwritten registry
\* is left as it was, and run() goes on as after a pass that evicted nothing:
\* no CLEANUP entry is logged, startup does not fail and the server listens.
C12_CleanupFailureSwallowed ==
    ( lastCleanup # NoCleanup /\ CleanupFailed(lastCleanup) )
    => /\ lastCleanup.returned = 0
       /\ ~lastCleanup.threw
       /\ lastCleanup.fault # "writeTorn" => lastCleanup.after = lastCleanup.before
       /\ logger[lastCleanup.proc].pc \in { "listening", "dead" }
       /\ logger[lastCleanup.proc].cleanedCount = 0
       /\ logger[lastCleanup.proc].lastLog \in { "SERVER_CONNECTED", "TOOL_CALL" }
       /\ logger[lastCleanup.proc].sessionData.status = "ready"

\* a failed read with a stale entry in the registry: nothing evicted, 0 returned
C12_Witness ==
    /\ lastCleanup # NoCleanup
    /\ lastCleanup.fault = "read"
    /\ lastCleanup.before.kind = "json"
    /\ StaleIds(lastCleanup.before.sessions, lastCleanup.now) # {}
    /\ lastCleanup.returned = 0
    /\ registryFile = lastCleanup.before
    /\ logger[lastCleanup.proc].pc = "listening"

\* C13: every execute call eventually settles, and a child still running
\* when the timeout (30 s) has passed is terminated: no call is pending on a
\* running child later than COMMAND_TIMEOUT_MS after the spawn.
C13_EventuallySettles ==
    /\ (child.pc = "running") ~> (child.promise.state # "pending")
    /\ []( (child.pc = "running" /\ child.promise.state = "pending")
              => clock - child.spawnedAt <= COMMAND_TIMEOUT_MS )

\* C14: the stdout text of a fulfilled execute call is at most
\* MAX_OUTPUT_SIZE_BYTES (1 MB) long.
C14_OutputBounded ==
    child.promise.state = "fulfilled" =>
        byteLength(child.promise.value.stdout) <= MAX_OUTPUT_SIZE_BYTES

ExitZero == [ kind |-> "code", code |-> 0 ]

\* C15: the promise of an execute call is fulfilled exactly when 'close' was
\* delivered with code 0, and then with the stdout accumulated; it is rejected
\* once 'close' came with another code or 'error' was delivered; it is
\* pending until one of the two events; and it settles once, the first
\* settlement standing when 'error' and 'close' are both delivered.
C15_SettlesOnceByExitCode ==
    /\ child.promise.state = "fulfilled"
          <=> (child.pc = "closed" /\ child.closeCode = ExitZero)
    /\ child.promise.state = "fulfilled" =>
          /\ child.promise.value.kind = "result"
          /\ child.promise.value.stdout = child.stdout
    /\ (child.pc = "closed" /\ child.closeCode # ExitZero) =>
          child.promise.state = "rejected"
    /\ child.errorDelivered =>
          /\ child.promise.state = "rejected"
          /\ \E cause \in SpawnErrors : child.promise.value = spawnError(cause)
    /\ (child.promise.state = "rejected" /\ ~child.errorDelivered) =>
          child.promise.value = exitError(child.stderr)
    /\ (child.pc \in { "none", "running", "exited", "spawnFailed" }) =>
          child.promise.state = "pending"
    /\ child.promise.settled <= 1
    /\ child.pc \in { "errored", "closed" } => child.promise.settled = 1

\* 'error' and then 'close' delivered for a child that could not be spawned:
\* the call stays rejected with the spawn failure
C15_Witness ==
    /\ child.pc = "closed"
    /\ child.errorDelivered
    /\ child.closeCode = SpawnFailedCode
    /\ child.promise.state = "rejected"
    /\ includes(child.promise.value.message, "Failed to execute Q CLI")
    /\ child.promise.settled = 1

\* C16: executeWithRetry ends with the value of the operation or with one
\* classified error (an MCPError with category, code and retryable flag),
\* whatever maxRetries is and however the attempts fail.
C16_OutcomeClassified ==
    \A r \in Requests :
        /\ retry[r].pc = "returned" => retry[r].outcome.kind = "result"
        /\ retry[r].pc = "thrown" =>
              /\ retry[r].outcome.kind = "MCPError"
              /\ retry[r].outcome.type \in ErrorType
              /\ retry[r].outcome.retryable \in BOOLEAN

\* the tools that run the external tool in a session directory
SessionTools == { "ask_q", "take_q", "q_translate" }

\* the remediation actions of a category
ActionsOf(type) ==
    IF type = UNKNOWN_ERROR THEN unknownGuidance.actions ELSE errorGuidanceMap[type].actions

HasRequiredField(name, args) ==
    IF name = "q_translate" THEN "task" \in args.fields ELSE "prompt" \in args.fields

\* C18: a call of ask_q, take_q or q_translate whose arguments lack the
\* required string is answered in the step it arrives, with a Validation
\* error (code INVALID_PARAMS, not retryable, 'Invalid parameters' in the
\* text); no session directory is resolved or created and executeWithRetry
\* is not entered, so nothing is spawned and no wait happens.
C18_ValidationBypassesRetry ==
    [][\A r \in Requests :
        ( /\ req[r].pc = "idle"
          /\ req'[r].pc # "idle"
          /\ req'[r].name \in SessionTools
          /\ ~HasRequiredField(req'[r].name, req'[r].args) )
        => /\ req'[r].pc = "responded"
           /\ req'[r].response.kind = "response"
           /\ req'[r].response.type = VALIDATION_ERROR
           /\ req'[r].response.code = "INVALID_PARAMS"
           /\ ~req'[r].response.retryable
           /\ includes(req'[r].response.details, "Invalid parameters")
           /\ req'[r].sessionDir = << >>
           /\ dirs' = dirs
           /\ retry[r] = RetryIdle
           /\ retry'[r] = RetryIdle]_vars

\* ask_q without prompt answered while no session directory exists
C18_Witness ==
    /\ req["r1"].name = "ask_q"
    /\ "prompt" \notin req["r1"].args.fields
    /\ req["r1"].pc = "responded"
    /\ req["r1"].response.type = VALIDATION_ERROR
    /\ retry["r1"].calls = 0
    /\ dirs = InitialDirs

\* C19: a call naming a tool the handler does not know is answered in the
\* step it arrives with a result whose text has 'Unknown tool'; nothing is
\* spawned, no directory is created, and the other request in flight is left
\* as it was and goes on being served.
C19_UnknownToolAnswered ==
    [][\A r \in Requests :
        ( /\ req[r].pc = "idle"
          /\ req'[r].pc # "idle"
          /\ req'[r].name \notin SessionTools )
        => /\ req'[r].pc = "responded"
           /\ req'[r].response.kind = "response"
           /\ includes(req'[r].response.details, "Unknown tool")
           /\ req'[r].sessionDir = << >>
           /\ dirs' = dirs
           /\ retry' = retry
           /\ retry[r] = RetryIdle
           /\ \A q \in Requests \ {r} : req'[q] = req[q]]_vars

\* an unknown tool answered while another request is running the external tool
C19_Witness ==
    /\ req["r1"].name = "no_such_tool"
    /\ req["r1"].pc = "responded"
    /\ includes(req["r1"].response.details, "Unknown tool")
    /\ req["r2"].pc = "handling"
    /\ retry["r2"].pc = "operation"
    /\ retry["r1"].calls = 0

\* C20: a call whose session directory could not be created is answered
\* without the external tool having been spawned, with a Configuration error.
C20_MkdirFailureIsConfiguration ==
    \A r \in Requests :
        ( /\ req[r].pc = "responded"
          /\ req[r].name \in SessionTools
          /\ HasRequiredField(req[r].name, req[r].args)
          /\ req[r].sessionDir = << >> )
        => /\ retry[r].calls = 0
           /\ req[r].response.isError
           /\ req[r].response.type = CONFIGURATION_ERROR

\* a session logger that was constructed and has not cleaned up after itself
RegisteredWriters == { w \in Writers : logger[w].pc = "listening" }

\* C21: however the registry cycles of concurrent writers interleave, once
\* all of them are complete the registry file is valid and holds, for every
\* registered session that is not stale, the entry with its latest
\* lastActivity.
C21_NoLostUpdate ==
    (\A w \in Writers : cycle[w].pc = "idle") =>
        /\ registryFile.kind \in { "absent", "json" }
        /\ \A w \in RegisteredWriters :
              isActive(logger[w].sessionData, clock) =>
                  /\ registryFile.kind = "json"
                  /\ logger[w].sessionData.sessionId \in DOMAIN registryFile.sessions
                  /\ registryFile.sessions[logger[w].sessionData.sessionId]
                         = logger[w].sessionData

\* the entries of the registry file, none when it is absent or unparseable
RegistryIds == IF registryFile.kind = "json" THEN DOMAIN registryFile.sessions ELSE {}

\* C22: once the handler has logged a call with a caller's sessionId, the
\* registry holds a record keyed by that sessionId ('default' without one),
\* last active at the time of the call or later.
C22_CallerSessionRecorded ==
    \A r \in Requests :
        req[r].pc = "handling" =>
            /\ effectiveSessionIdOf(req[r].sessionId) \in RegistryIds
            /\ registryFile.sessions[effectiveSessionIdOf(req[r].sessionId)].lastActivity
                   <= clock

\* the entries a step removes from the registry
RemovedIds == { id \in RegistryIds : registryFile'.kind = "json"
                                        /\ id \notin DOMAIN registryFile'.sessions }

\* the step is a pass of cleanupStaleSessionsFromRegistry that found id stale
EvictedStale(id) ==
    /\ lastCleanup' # lastCleanup
    /\ id \in DOMAIN lastCleanup'.before.sessions
    /\ ~isActive(lastCleanup'.before.sessions[id], lastCleanup'.now)

\* the step is the cleanup of the logger whose session id is
CleanedUpByOwner(id) ==
    \E p \in Procs :
        /\ logger[p].pc \in { "constructed", "listening" }
        /\ logger'[p].pc \in { "exited", "cleanedUp" }
        /\ logger[p].sessionData.sessionId = id

LastEvicted ==
    IF lastCleanup # NoCleanup /\ lastCleanup.before.kind = "json"
                               /\ lastCleanup.after.kind = "json"
    THEN DOMAIN lastCleanup.before.sessions \ DOMAIN lastCleanup.after.sessions
    ELSE {}

\* C24: a step that runs cleanupStaleSessionsFromRegistry leaves every
\* directory and every session log file where it was, those of the sessions
\* it evicts included.
C24_CleanupTouchesRegistryOnly ==
    [][lastCleanup' # lastCleanup => dirs' = dirs /\ logFiles' = logFiles]_vars

C24_Witness ==
    /\ LastEvicted # {}
    /\ LastEvicted \subseteq logFiles
    /\ SessionRoot \o << "a" >> \in dirs

\* the children the call in slot r has spawned so far
SpawnedBy(r) ==
    IF req[r].name = "q_status" THEN diagnosticSpawns
    ELSE IF retry[r].calls > 0 THEN { spawnOf(req[r]) }
    ELSE {}

\* C25: every child the server spawns runs 'q' with a first argument from
\* ALLOWED_Q_COMMANDS; the text of the prompt or task is what is written to
\* the child's stdin and is no element of argv.
C25_AllowedCommandPromptOnStdin ==
    \A r \in Requests :
        \A child_ \in SpawnedBy(r) :
            /\ child_.executable = "q"
            /\ Len(child_.argv) >= 1
            /\ child_.argv[1] \in ALLOWED_Q_COMMANDS
            /\ req[r].name # "q_status" =>
                  /\ child_.stdin = << req[r].args.text, "\n" >>
                  /\ \A i \in 1 .. Len(child_.argv) : child_.argv[i] # req[r].args.text

C25_Witness ==
    \E r \in Requests :
        /\ req[r].name = "ask_q"
        /\ req[r].args.model # NoValue
        /\ req[r].args.agent # NoValue
        /\ retry[r].calls > 1
        /\ Len(spawnOf(req[r]).argv) = 7

\* C26: an ask_q call whose prompt is longer than CONFIG.MAX_PROMPT_LENGTH
\* is answered with a Validation error, with no session directory resolved
\* and no child spawned.
C26_LongPromptRejected ==
    \A r \in Requests :
        /\ req[r].name \in { "ask_q", "take_q" }
        /\ "prompt" \in req[r].args.fields
        /\ req[r].args.length > CONFIG(env).MAX_PROMPT_LENGTH
        => /\ req[r].pc = "responded"
           /\ req[r].response.isError
           /\ req[r].response.type = VALIDATION_ERROR
           /\ req[r].sessionDir = << >>
           /\ retry[r].calls = 0

RECURSIVE pow2(_)
pow2(n) == IF n = 0 THEN 1 ELSE 2 * pow2(n - 1)

\* C27: a tool invocation makes at most CONFIG.MAX_RETRIES attempts and
\* waits min(CONFIG.RETRY_BASE_DELAY_MS * 2^(attempt-1),
\* CONFIG.RETRY_MAX_DELAY_MS) plus jitter, whatever the environment sets
\* them to.
C27_ConfiguredRetry ==
    \A r \in Requests :
        /\ retry[r].calls <= CONFIG(env).MAX_RETRIES
        /\ retry[r].pc = "backoff" =>
              retry[r].delay = Min(CONFIG(env).RETRY_BASE_DELAY_MS * pow2(retry[r].attempt - 1),
                                   CONFIG(env).RETRY_MAX_DELAY_MS)

\* C28: the value ask_q answers with exists only once the child has exited
\* and 'close' has been delivered, never while the child runs; stdout grows
\* only by the chunk of a 'data' event appended at its end; and the text of
\* the response is that stdout, as it is.
C28_ResponseAfterExitIsStdout ==
    /\ [](child.pc = "running" => child.promise.state = "pending")
    /\ [](child.promise.state = "fulfilled" =>
             /\ child.exitCode # NoValue
             /\ child.pc = "closed"
             /\ LET response == successResponse("ask_q", child.promise.value)
                IN  /\ ~response.isError
                    /\ response.text = child.stdout
                    /\ ~response.fenced)
    /\ [][child'.pc \in { "running", "exited", "closed" } /\ child.pc # "closed" =>
             \/ child'.stdout = child.stdout
             \/ \E chunk \in Chunks : child'.stdout = Append(child.stdout, chunk)]_vars

C28_Witness ==
    /\ child.promise.state = "fulfilled"
    /\ Len(child.stdout) = 2
    /\ child.stdout[1] # child.stdout[2]
    /\ successResponse("ask_q", child.promise.value).text = child.stdout

\* C29 as stated: no appendFileSync of logActivity appends to a log file
\* that is larger than the limit.
C29_NoAppendOverLimit ==
    \A i \in 1 .. Len(log.appends) : log.appends[i].target <= LOG_SIZE_LIMIT_BYTES

\* C29: the size of the log is tested on every LOG_SIZE_CHECK_INTERVAL-th
\* logActivity call only; a file found larger than the limit then is renamed
\* aside before the line of that call is appended, unless the rename fails.
\* The lines of the other calls are appended whatever the size of the file.
C29_RotatedAtCheckOnly ==
    /\ \A i \in 1 .. Len(log.appends) :
          (log.appends[i].target > LOG_SIZE_LIMIT_BYTES
              /\ log.appends[i].count % LOG_SIZE_CHECK_INTERVAL = 0) => log.renameFailed
    /\ Len(log.appends) = 2 =>
          /\ log.appends[1].target = 0
          /\ log.appends[2].count % LOG_SIZE_CHECK_INTERVAL = 0
          /\ log.appends[2].target = LogRotatedEntryBytes

\* the file was renamed aside at a check that found it over the limit, after
\* lines were appended to it while it was over the limit
C29_Witness ==
    /\ log.rotations = 1
    /\ Len(log.appends) = 2
    /\ log.bytes < LOG_SIZE_LIMIT_BYTES
    /\ log.logWriteCount > NearLimitWrites + LOG_SIZE_CHECK_INTERVAL

\* C30: no backoff wait follows the last allowed attempt: a sequence waits
\* only with attempts left, a retryable failure of the last attempt is thrown
\* at once as that attempt's classified error, and a sequence that ended
\* after n attempts made n - 1 waits.
C30_NoWaitAfterLastAttempt ==
    \A r \in Requests :
        /\ retry[r].pc = "backoff" =>
              /\ retry[r].attempt < retry[r].maxRetries
              /\ retry[r].nwaits = retry[r].calls
        /\ (retry[r].pc \in { "returned", "thrown" } /\ retry[r].calls >= 1) =>
              retry[r].nwaits = retry[r].calls - 1
        /\ (retry[r].pc = "thrown" /\ retry[r].log # << >>
               /\ retry[r].log[Len(retry[r].log)].retryable) =>
              /\ retry[r].calls = retry[r].maxRetries
              /\ retry[r].nwaits = retry[r].maxRetries - 1
              /\ retry[r].outcome = retry[r].log[Len(retry[r].log)]

\* three attempts, each failing with a retryable error, and two waits
C30_Witness ==
    /\ retry["r1"].pc = "thrown"
    /\ retry["r1"].maxRetries = DefaultMaxRetries
    /\ retry["r1"].calls = DefaultMaxRetries
    /\ retry["r1"].nwaits = DefaultMaxRetries - 1
    /\ \A k \in 1 .. Len(retry["r1"].log) : retry["r1"].log[k].retryable
    /\ Len(retry["r1"].log) = DefaultMaxRetries

(***************************************************************************)
(* C31: termination of a retry sequence                                   *)
(***************************************************************************)
\* a started sequence is at an attempt or in a backoff wait
InFlight(st) == st.pc \in {"operation", "backoff"}
\* the sequence returned the operation's value or threw its final error
Terminal(st) == st.pc \in {"returned", "thrown"}

\* C31: when every attempt settles, a started executeWithRetry sequence
\* reaches a terminal outcome (return or final throw); until then nothing
\* takes it out of flight, and it makes at most maxRetries attempts and
\* maxRetries - 1 waits on the way.
C31_RetryTerminates ==
    /\ InFlight(retry["r1"]) ~> Terminal(retry["r1"])
    /\ [][InFlight(retry["r1"]) =>
            /\ InFlight(retry["r1"]') \/ Terminal(retry["r1"]')
            /\ retry["r1"]'.maxRetries = retry["r1"].maxRetries
            /\ retry["r1"]'.attempt >= retry["r1"].attempt
            /\ retry["r1"]'.attempt <= retry["r1"].maxRetries]_vars

\* a sequence that used all of its attempts, waited between them and ended
\* with the final error
C31_Witness ==
    /\ retry["r1"].pc = "thrown"
    /\ retry["r1"].maxRetries = DefaultMaxRetries
    /\ retry["r1"].calls = DefaultMaxRetries
    /\ retry["r1"].nwaits = DefaultMaxRetries - 1

(***************************************************************************)
(* C32: a backoff wait suspends only its own request                      *)
(***************************************************************************)
\* request q can be started now and its first attempt spawns a child
CanStart(q) ==
    ENABLED (/\ CallTool(q, "ask_q", [kind |-> "args", fields |-> {"prompt"}],
                         NoValue, "none")
             /\ retry'[q].pc = "operation")

\* the child of request q can exit with code 0 now and the request is
\* answered with its output
CanComplete(q) ==
    ENABLED (/\ \E stdout \in ChildStdout : ChildExitsZero(q, stdout)
             /\ req'[q].pc = "responded"
             /\ ~req'[q].response.isError)

\* C32: while a request is suspended in a backoff wait, any other request
\* slot that is free can take a call and spawn its child, a child running
\* for another request can exit and have its request answered, and an
\* answered request can be released: the wait holds up its own request only.
C32_BackoffSuspendsOnlyOwnRequest ==
    \A r \in Requests : \A q \in Requests \ {r} :
        (req[r].pc = "handling" /\ retry[r].pc = "backoff") =>
            /\ req[q].pc = "idle" => CanStart(q)
            /\ (req[q].pc = "handling" /\ retry[q].pc = "operation") => CanComplete(q)
            /\ req[q].pc = "responded" => ENABLED Respond(q)
            /\ ENABLED BackoffTimer(r)

\* one request is in its backoff wait while the other, on its first and
\* only attempt, has been answered with the output of its child
C32_Witness ==
    \E r \in Requests : \E q \in Requests \ {r} :
        /\ req[r].pc = "handling" /\ retry[r].pc = "backoff"
        /\ req[q].pc = "responded" /\ ~req[q].response.isError
        /\ retry[q].calls = 1 /\ retry[q].nwaits = 0

(***************************************************************************)
(* C33: the stderr-keyed patterns and the stderr of the child             *)
(***************************************************************************)
\* the execute call was rejected by the 'close' event of a child that
\* exited with a non-zero code
RejectedByExitCode ==
    /\ child.pc = "closed"
    /\ ~child.errorDelivered
    /\ child.closeCode.kind = "code"
    /\ child.closeCode.code # 0
    /\ child.promise.state = "rejected"

\* C33: the error of a child that exited with a non-zero code is classified
\* Authentication when the child's stderr contains 'login required', and
\* Configuration, unless a category tested earlier matches, when it
\* contains 'doctor'.
C33_StderrPatternsApplied ==
    RejectedByExitCode =>
        LET classified == classifyError(child.promise.value, "ask_q")
        IN  /\ "login required" \in child.stderr =>
                   classified.type = AUTHENTICATION_ERROR
            /\ "doctor" \in child.stderr =>
                   classified.type \in { AUTHENTICATION_ERROR, SERVICE_CAPACITY_ERROR,
                                         NETWORK_ERROR, Q_CLI_NOT_FOUND,
                                         CONFIGURATION_ERROR }

(***************************************************************************)
(* C35: redaction in the argument preview                                 *)
(***************************************************************************)
\* C35: the preview of a TOOL_CALL entry carries no character of the value
\* of an argument whose key contains 'password', 'key' or 'secret' in any
\* case, whatever the length of the value: it is logged as '[REDACTED]'.
C35_SensitiveValuesRedacted ==
    preview # NoPreview =>
        \A key \in DOMAIN preview.args :
            isSensitiveKey(key) =>
                /\ preview.argsPreview[key].form = "[REDACTED]"
                /\ preview.argsPreview[key].chars = 0

(***************************************************************************)
(* C34: the classified error of the last attempt reaches the caller       *)
(***************************************************************************)
\* the request was answered after its retry sequence threw the classified
\* error of a failed attempt
AnsweredAfterThrow(r) ==
    /\ req[r].pc = "responded"
    /\ retry[r].pc = "thrown"
    /\ retry[r].log # << >>

\* the classified error of the last failed attempt of request r
LastClassified(r) == retry[r].log[Len(retry[r].log)]

\* C34: the error response of a request whose retry sequence failed carries
\* the type, code, retryable flag and message of the MCPError that
\* executeWithRetry built for the last failed attempt; the tool handler and
\* the request handler pass it on as it is.
C34_ClassifiedErrorPassedThrough ==
    \A r \in Requests :
        AnsweredAfterThrow(r) =>
            /\ retry[r].outcome = LastClassified(r)
            /\ req[r].response.isError
            /\ req[r].response.type = LastClassified(r).type
            /\ req[r].response.code = LastClassified(r).code
            /\ req[r].response.retryable = LastClassified(r).retryable
            /\ req[r].response.details = LastClassified(r).message
            /\ req[r].response.headline = LastClassified(r).guidance.message

\* a request answered with the error of its second attempt, which is of
\* another category than the error of its first
C34_Witness ==
    \E r \in Requests :
        /\ AnsweredAfterThrow(r)
        /\ Len(retry[r].log) = 2
        /\ retry[r].log[1].type # retry[r].log[2].type
        /\ req[r].response.type = retry[r].log[2].type

(***************************************************************************)
(* C36: the entry of a session after its cleanup                          *)
(***************************************************************************)
\* the cleanup of the logger of process p has completed: by cleanup(), or by
\* the cleanup closure at the end of the process
CleanupCompleted(p) == logger[p].pc \in { "cleanedUp", "exited" }

\* C36: once the cleanup of a session has completed, its entry is absent
\* from the registry and stays absent, whatever is called on its logger
\* later.
C36_AbsentAfterCleanup ==
    \A p \in Writers :
        CleanupCompleted(p) => logger[p].sessionData.sessionId \notin RegistryIds

(***************************************************************************)
(* C37: a live session evicted by another process                         *)
(***************************************************************************)
\* the server process p runs and its logger has not been cleaned up
Live(p) == logger[p].pc \in { "constructed", "listening" }

\* the last cleanup pass, run by another process, evicted the entry of p,
\* and p has logged nothing since
EvictedSinceLastActivity(p) ==
    /\ lastCleanup # NoCleanup
    /\ lastCleanup.proc # p
    /\ lastCleanup.before.kind = "json"
    /\ lastCleanup.after.kind = "json"
    /\ logger[p].sessionData.sessionId \in DOMAIN lastCleanup.before.sessions
    /\ logger[p].sessionData.sessionId \notin DOMAIN lastCleanup.after.sessions
    /\ lastCleanup.now - logger[p].sessionData.lastActivity >= STALE_SESSION_CUTOFF_MS

\* process p logs an activity in this step
LogsActivity(p) ==
    /\ Live(p)
    /\ Live(p)'
    /\ logger'[p] # logger[p]

RunCompletes(p) == logger[p].pc = "constructed" /\ logger'[p].pc = "listening"

KeptByCleanup(file, now) ==
    LET after == cleanupStaleSessionsFromRegistry(file, now, "none").file
    IN  IF after.kind = "json" THEN after.sessions ELSE << >>

\* C39: a getActiveSessions call that reads the registry returns exactly the
\* entries a cleanupStale pass at that instant would keep, the entries with
\* now - lastActivity < cutoff, each as it is in the file; a call that
\* cannot read the registry returns no session; and the call leaves the
\* registry file as it was.
C39_ActiveSessionsAreTheKeptOnes ==
    active # NoActive =>
        /\ active.after = active.before
        /\ active.fault = "none" =>
               /\ active.returned = KeptByCleanup(active.before, active.now)
               /\ active.before.kind = "json" =>
                      DOMAIN active.returned =
                          DOMAIN active.before.sessions
                              \ StaleIds(active.before.sessions, active.now)
        /\ active.fault # "none" => active.returned = << >>

\* a call that found an entry exactly a cutoff old and a younger one, and
\* returned the younger one
C39_Witness ==
    /\ active # NoActive
    /\ active.fault = "none"
    /\ active.before.kind = "json"
    /\ \E id \in DOMAIN active.before.sessions :
          /\ active.now - active.before.sessions[id].lastActivity = STALE_SESSION_CUTOFF_MS
          /\ id \notin DOMAIN active.returned
    /\ \E id \in DOMAIN active.returned :
          active.now - active.returned[id].lastActivity < STALE_SESSION_CUTOFF_MS

(***************************************************************************)
(* C40: failures of logging and of the registry                           *)
(***************************************************************************)
\* the response of request r when every logActivity call of its handler
\* succeeds
ResponseWithoutFaults(r) == afterRetry([req[r] EXCEPT !.pc = "handling"], retry[r]).response

\* C40: no logActivity, registerSession or updateSession call lets a failure
\* of the log file or of the registry out: a request is answered, and with
\* the response its tool handler's outcome gives when logging succeeds, and
\* a logger is constructed, whatever fails.
C40_LoggingFailuresSwallowed ==
    /\ \A r \in Requests :
          req[r].pc = "responded" =>
              /\ req[r].response # uncaught
              /\ retry[r].pc \in { "returned", "thrown" }
              /\ req[r].response = ResponseWithoutFaults(r)
    /\ \A p \in Procs : logger[p].pc \in { "off", "constructed", "listening" }

\* a request answered with the output of its tool although the append of
\* its TOOL_SUCCESS entry failed, with a registry a torn write has left
\* unparseable
C40_Witness ==
    /\ req["r1"].pc = "responded"
    /\ ~req["r1"].response.isError
    /\ logger[1].lastLog = "TOOL_SUCCESS"
    /\ log.appends = << >>
    /\ registryFile = InvalidFile
    /\ logger[2].pc = "constructed"
====
